---- MODULE Spec2Model ----
(***************************************************************************)
(* Conversation state and escalation decision engine of cs_agent:          *)
(* session/state_schema.py, session/state_helpers.py, tools/ticket_system  *)
(* and tools/user_context.                                                 *)
(*                                                                         *)
(* Python values are modelled as follows.  A dict is a function whose      *)
(* DOMAIN is its key set.  A str that the code only stores and compares is *)
(* a TLA+ string; a str the code scans character by character is a         *)
(* sequence of one-character strings.  None is the string "None".  A list  *)
(* that the code mutates in place is an entry of `heap`, and the dict      *)
(* value is the reference to it, so that two dicts holding the same list   *)
(* object see each other's appends.                                        *)
(***************************************************************************)
EXTENDS Integers, Sequences, FiniteSets, TLC

VARIABLES
    state,      \* conversation id -> tool_context.state of that conversation
    heap,       \* list object -> its elements (the attempted_solutions lists)
    db,         \* TICKET_DATABASE: ticket id -> ticket
    call,       \* conversation id -> the create_ticket frame running in it
    returned,   \* the results create_ticket has returned, in order
    ret,        \* the last operation run and what it returned
    now,        \* datetime.now()
    agents      \* agent name -> how far its run in the current turn has got

vars == <<state, heap, db, call, returned, ret, now, agents>>

----------------------------------------------------------------------------
(* Bounds of the model. *)

\* longest attempted_solutions list explored
MaxSolutions == 2
\* most tickets create_ticket stores in one run
MaxTickets == 2
\* largest number random.randint draws (9999 in the source)
RandHi == 1002
\* largest value a turn or question counter is driven to
MaxTurns == 2
\* latest reading of the clock
MaxClock == 2

(* Inputs the operations are called with. *)

Conv == {"c1", "c2"}
UserIds == {"user_123", "user_456"}
None == "None"
Results == {"pending", "helpful", "not_helpful"}
Statuses == {"new", "in_progress", "awaiting_user", "resolved", "escalated"}
MaxAttemptsArgs == 0 .. 3

----------------------------------------------------------------------------
(* dict access *)

Get(d, key, default) == IF key \in DOMAIN d THEN d[key] ELSE default

Put(d, key, value) ==
    [k \in DOMAIN d \cup {key} |-> IF k = key THEN value ELSE d[k]]

\* Python truthiness of an Optional[str]
Truthy(v) == v # None /\ v # ""

\* the value of `ret` after an operation that returns None
NoReturn == [op |-> "none", conv |-> "none", arg |-> None, value |-> None]

----------------------------------------------------------------------------
(* session/state_schema.py *)

\* the one list object INITIAL_STATE["attempted_solutions"] is bound to
InitialSolutions == "INITIAL_STATE.attempted_solutions"

INITIAL_STATE ==
    [ conversation_id |-> "",
      user_id |-> "",
      started_at |-> 0,
      last_activity |-> 0,
      status |-> "new",
      current_agent |-> "orchestrator",
      turn_count |-> 0,
      issue |-> None,
      attempted_solutions |-> InitialSolutions,
      solution_attempts_count |-> 0,
      escalation_count |-> 0,
      escalation_requested |-> FALSE,
      ticket_id |-> None,
      triage_complete |-> FALSE,
      specialist_engaged |-> FALSE,
      clarifying_questions_asked |-> 0,
      last_kb_search |-> None,
      last_similar_tickets |-> << >>,
      system_status_checked |-> FALSE,
      user_context_loaded |-> FALSE,
      user_name |-> None,
      user_plan |-> None,
      user_frustration_level |-> "normal" ]

\* dict.copy() copies the keys and binds each to the same value object
ShallowCopy(d) == [k \in DOMAIN d |-> d[k]]

get_initial_state(user_id, conversation_id) ==
    LET s0 == ShallowCopy(INITIAL_STATE)
        s1 == Put(s0, "user_id", user_id)
        s2 == Put(s1, "conversation_id", conversation_id)
        s3 == Put(s2, "started_at", now)
    IN  Put(s3, "last_activity", now)

----------------------------------------------------------------------------
(* session/state_helpers.py: reading helpers *)

\* state.get("attempted_solutions", []): the elements of the list the key is
\* bound to, a fresh empty list when the key is missing
get_attempted_solutions(s) ==
    IF "attempted_solutions" \in DOMAIN s THEN heap[s["attempted_solutions"]] ELSE << >>


----------------------------------------------------------------------------
(* session/state_helpers.py: detect_frustration *)

LowerOf ==
    [A |-> "a", B |-> "b", C |-> "c", D |-> "d", E |-> "e", F |-> "f", G |-> "g", H |-> "h", I |-> "i", J |-> "j", K |-> "k", L |-> "l", M |-> "m", N |-> "n", O |-> "o", P |-> "p", Q |-> "q", R |-> "r", S |-> "s", T |-> "t", U |-> "u", V |-> "v", W |-> "w", X |-> "x", Y |-> "y", Z |-> "z"]

\* str.lower()
Lower(text) ==
    [i \in 1 .. Len(text) |-> IF text[i] \in DOMAIN LowerOf THEN LowerOf[text[i]] ELSE text[i]]

\* `word in text` on str
Contains(word, text) ==
    \E i \in 1 .. (Len(text) - Len(word) + 1) : SubSeq(text, i, i + Len(word) - 1) = word

angry_words ==
    << <<"r", "i", "d", "i", "c", "u", "l", "o", "u", "s">>,
      <<"u", "n", "a", "c", "c", "e", "p", "t", "a", "b", "l", "e">>,
      <<"t", "e", "r", "r", "i", "b", "l", "e">>,
      <<"w", "o", "r", "s", "t">>,
      <<"l", "a", "w", "s", "u", "i", "t">>,
      <<"r", "e", "f", "u", "n", "d">>,
      <<"c", "a", "n", "c", "e", "l">>,
      <<"a", "n", "g", "r", "y">>,
      <<"f", "u", "r", "i", "o", "u", "s">>,
      <<"o", "u", "t", "r", "a", "g", "e", "d">> >>

frustrated_words ==
    << <<"f", "r", "u", "s", "t", "r", "a", "t", "e", "d">>,
      <<"a", "n", "n", "o", "y", "i", "n", "g">>,
      <<"s", "t", "i", "l", "l", " ", "n", "o", "t", " ", "w", "o", "r", "k", "i", "n", "g">>,
      <<"t", "r", "i", "e", "d", " ", "e", "v", "e", "r", "y", "t", "h", "i", "n", "g">>,
      <<"w", "a", "s", "t", "e", " ", "o", "f", " ", "t", "i", "m", "e">>,
      <<"u", "s", "e", "l", "e", "s", "s">>,
      <<"d", "o", "e", "s", "n", "'", "t", " ", "h", "e", "l", "p">>,
      <<"h", "o", "u", "r", "s">>,
      <<"d", "a", "y", "s">>,
      <<"a", "g", "a", "i", "n">>,
      <<"s", "t", "i", "l", "l">>,
      <<"k", "e", "e", "p", "s", " ", "h", "a", "p", "p", "e", "n", "i", "n", "g">> >>

\* sum(1 for c in user_message if c.isupper())
UpperCount(text) == Cardinality({i \in 1 .. Len(text) : text[i] \in DOMAIN LowerOf})

\* Shouting: caps_ratio > 0.5, the ratio being UpperCount / max(len, 1)
Shouting_inclusive(text) ==
    LET denom == IF Len(text) > 1 THEN Len(text) ELSE 1
    IN  2 * UpperCount(text) >= denom /\ Len(text) >= 10

Shouting(text) ==
    LET denom == IF Len(text) > 1 THEN Len(text) ELSE 1
    IN  2 * UpperCount(text) > denom /\ Len(text) > 10

FrustrationLevel(user_message) ==
    LET message_lower == Lower(user_message)
        lexicon ==
            IF \E k \in 1 .. Len(angry_words) : Contains(angry_words[k], message_lower)
            THEN "angry"
            ELSE IF \E k \in 1 .. Len(frustrated_words) :
                        Contains(frustrated_words[k], message_lower)
                 THEN "frustrated"
                 ELSE "normal"
    IN  IF Shouting(user_message) THEN "angry" ELSE lexicon

\* user messages the detector is run on
Messages ==
    { <<"t", "h", "a", "n", "k", "s", ",", " ", "t", "h", "a", "t", " ", "w", "o", "r", "k", "e", "d">>,
      <<"i", "t", " ", "i", "s", " ", "s", "t", "i", "l", "l", " ", "b", "r", "o", "k", "e", "n">>,
      <<"t", "h", "i", "s", " ", "i", "s", " ", "r", "i", "d", "i", "c", "u", "l", "o", "u", "s">>,
      <<"W", "H", "Y", " ", "I", "S", " ", "I", "T", " ", "D", "O", "W", "N">>,
      <<"H", "E", "L", "P", " ", "M", "E">>,
      <<"T", "H", "I", "S", " ", "I", "S", " ", "T", "E", "R", "R", "I", "B", "L", "E", " ", "A", "N", "D", " ", "I", " ", "A", "M", " ", "F", "U", "R", "I", "O", "U", "S", "!", "!", "!">>,
      <<"I", " ", "t", "r", "i", "e", "d", " ", "e", "v", "e", "r", "y", "t", "h", "i", "n", "g", " ", "a", "n", "d", " ", "i", "t", "'", "s", " ", "s", "t", "i", "l", "l", " ", "n", "o", "t", " ", "w", "o", "r", "k", "i", "n", "g">>,
      <<"A", "B", "C", "D", "E", "f", "g", "h", "i", "j">>,
      <<"A", "B", "C", "D", "E", "F", "g", "h", "i", "j", "k">>,
      <<"A", "B", "C", "D", "E", "F", "g", "h", "i", "j", "k", "l">>,
      <<"A", "B", "C", "D", "E", "F", "G", "h", "i", "j", "k", "l">>,
      <<"A", "B", "C", "D", "E", "F", "G", "h", "i", "j">>,
      <<"s", "t", "i", "l", "l", " ", "r", "i", "d", "i", "c", "u", "l", "o", "u", "s">>,
      <<"S", "T", "I", "L", "L", " ", "N", "O", "T", " ", "W", "O", "R", "K", "I", "N", "G">>,
      <<>> }

----------------------------------------------------------------------------
(* session/state_schema.py: a conversation starts from get_initial_state *)

GetInitialState(c, user_id) ==
    /\ c \notin DOMAIN state
    /\ state' = Put(state, c, get_initial_state(user_id, c))
    /\ ret' = NoReturn
    /\ UNCHANGED <<heap, db, call, returned, now, agents>>

----------------------------------------------------------------------------
(* session/state_helpers.py: writing helpers *)

\* the list object `state.get("attempted_solutions", [])` creates when the
\* session of conversation c has no such key
NewList(c) == "attempted_solutions of " \o c

AddAttemptedSolution(c, solution, agent, result, user_feedback) ==
    /\ c \in DOMAIN state
    /\ Len(get_attempted_solutions(state[c])) < MaxSolutions
    /\ LET solutions == IF "attempted_solutions" \in DOMAIN state[c]
                        THEN state[c]["attempted_solutions"]
                        ELSE NewList(c)
           attempt == [ solution |-> solution,
                        agent |-> agent,
                        result |-> result,
                        user_feedback |-> user_feedback,
                        timestamp |-> now ]
           appended == Append(get_attempted_solutions(state[c]), attempt)
       IN  /\ heap' = Put(heap, solutions, appended)
           /\ state' = [state EXCEPT ![c] =
                  Put(Put(Put(@, "attempted_solutions", solutions),
                          "solution_attempts_count", Len(appended)),
                      "last_activity", now)]
    /\ ret' = NoReturn
    /\ UNCHANGED <<db, call, returned, now, agents>>

\* update_solution_result amending solutions[0] instead of solutions[-1]
UpdateSolutionResult_first(c, result, user_feedback) ==
    /\ c \in DOMAIN state
    /\ LET solutions == state[c]["attempted_solutions"]
           n == Len(get_attempted_solutions(state[c]))
           amended == IF Truthy(user_feedback)
                      THEN [heap[solutions][1] EXCEPT !.result = result,
                                                      !.user_feedback = user_feedback]
                      ELSE [heap[solutions][1] EXCEPT !.result = result]
       IN  IF n > 0
           THEN /\ heap' = [heap EXCEPT ![solutions] = [@ EXCEPT ![1] = amended]]
                /\ state' = [state EXCEPT ![c] =
                       Put(Put(@, "attempted_solutions", solutions), "last_activity", now)]
           ELSE UNCHANGED <<heap, state>>
    /\ ret' = NoReturn
    /\ UNCHANGED <<db, call, returned, now, agents>>

UpdateSolutionResult(c, result, user_feedback) ==
    /\ c \in DOMAIN state
    /\ LET solutions == state[c]["attempted_solutions"]
           n == Len(get_attempted_solutions(state[c]))
           amended == IF Truthy(user_feedback)
                      THEN [heap[solutions][n] EXCEPT !.result = result,
                                                      !.user_feedback = user_feedback]
                      ELSE [heap[solutions][n] EXCEPT !.result = result]
       IN  IF n > 0
           THEN /\ heap' = [heap EXCEPT ![solutions] = [@ EXCEPT ![n] = amended]]
                /\ state' = [state EXCEPT ![c] =
                       Put(Put(@, "attempted_solutions", solutions), "last_activity", now)]
           ELSE UNCHANGED <<heap, state>>
    /\ ret' = NoReturn
    /\ UNCHANGED <<db, call, returned, now, agents>>

SetConversationStatus(c, status) ==
    /\ c \in DOMAIN state
    /\ state' = [state EXCEPT ![c] = Put(Put(@, "status", status), "last_activity", now)]
    /\ ret' = NoReturn
    /\ UNCHANGED <<heap, db, call, returned, now, agents>>

\* set_escalation_requested writing the count 1 instead of adding 1 to it
set_escalation_requested_count_reset(s, ticket_id) ==
    LET s1 == Put(s, "escalation_requested", TRUE)
        s2 == Put(s1, "escalation_count", 1)
        s3 == Put(s2, "status", "escalated")
        s4 == IF Truthy(ticket_id) THEN Put(s3, "ticket_id", ticket_id) ELSE s3
    IN  Put(s4, "last_activity", now)

\* set_escalation_requested leaving the count as it is
set_escalation_requested_uncounted(s, ticket_id) ==
    LET s1 == Put(s, "escalation_requested", TRUE)
        s3 == Put(s1, "status", "escalated")
        s4 == IF Truthy(ticket_id) THEN Put(s3, "ticket_id", ticket_id) ELSE s3
    IN  Put(s4, "last_activity", now)

\* the session after set_escalation_requested(tool_context, ticket_id)
set_escalation_requested(s, ticket_id) ==
    LET s1 == Put(s, "escalation_requested", TRUE)
        s2 == Put(s1, "escalation_count", Get(s1, "escalation_count", 0) + 1)
        s3 == Put(s2, "status", "escalated")
        s4 == IF Truthy(ticket_id) THEN Put(s3, "ticket_id", ticket_id) ELSE s3
    IN  Put(s4, "last_activity", now)

\* most escalations recorded in one conversation
MaxEscalations == 2

SetEscalationRequested(c, ticket_id) ==
    /\ c \in DOMAIN state
    /\ Get(state[c], "escalation_count", 0) < MaxEscalations
    /\ state' = [state EXCEPT ![c] = set_escalation_requested(@, ticket_id)]
    /\ ret' = NoReturn
    /\ UNCHANGED <<heap, db, call, returned, now, agents>>

\* set_user_info counting the call as a turn
set_user_info_counting_turn(s, user_name, user_plan, user_id, recent_tickets) ==
    LET s1 == IF Truthy(user_name) THEN Put(s, "user_name", user_name) ELSE s
        s2 == IF Truthy(user_plan) THEN Put(s1, "user_plan", user_plan) ELSE s1
        s3 == IF Truthy(user_id) THEN Put(s2, "user_id", user_id) ELSE s2
        s4 == IF recent_tickets # << >> THEN Put(s3, "recent_tickets", recent_tickets) ELSE s3
        s5 == Put(s4, "user_context_loaded", TRUE)
        s6 == Put(s5, "turn_count", Get(s5, "turn_count", 0) + 1)
    IN  Put(s6, "last_activity", now)

\* the session after set_user_info(...)
set_user_info(s, user_name, user_plan, user_id, recent_tickets) ==
    LET s1 == IF Truthy(user_name) THEN Put(s, "user_name", user_name) ELSE s
        s2 == IF Truthy(user_plan) THEN Put(s1, "user_plan", user_plan) ELSE s1
        s3 == IF Truthy(user_id) THEN Put(s2, "user_id", user_id) ELSE s2
        s4 == IF recent_tickets # << >> THEN Put(s3, "recent_tickets", recent_tickets) ELSE s3
        s5 == Put(s4, "user_context_loaded", TRUE)
    IN  Put(s5, "last_activity", now)

\* detect_frustration's level for each message explored, computed once
DetectedLevel == [m \in Messages |-> FrustrationLevel(m)]

\* detect_frustration keeping an earlier level when the message is calm
DetectFrustration_sticky(c, user_message) ==
    /\ c \in DOMAIN state
    /\ LET level == DetectedLevel[user_message]
           stored == IF level = "normal"
                     THEN Get(state[c], "user_frustration_level", level)
                     ELSE level
       IN  /\ state' = [state EXCEPT ![c] = Put(@, "user_frustration_level", stored)]
           /\ ret' = [op |-> "detect_frustration", conv |-> c, arg |-> user_message,
                      value |-> level]
    /\ UNCHANGED <<heap, db, call, returned, now, agents>>

DetectFrustration(c, user_message) ==
    /\ c \in DOMAIN state
    /\ LET level == DetectedLevel[user_message]
       IN  /\ state' = [state EXCEPT ![c] = Put(@, "user_frustration_level", level)]
           /\ ret' = [op |-> "detect_frustration", conv |-> c, arg |-> user_message,
                      value |-> level]
    /\ UNCHANGED <<heap, db, call, returned, now, agents>>

RecordSimilarTickets(c, ticket_ids) ==
    /\ c \in DOMAIN state
    /\ state' = [state EXCEPT ![c] = Put(@, "last_similar_tickets", ticket_ids)]
    /\ ret' = NoReturn
    /\ UNCHANGED <<heap, db, call, returned, now, agents>>

----------------------------------------------------------------------------
(* session/state_helpers.py: counters, flags and breadcrumbs *)

\* tool_context.state of a session that was created without get_initial_state
EmptyState == [key \in {} |-> None]

NewSession(c) ==
    /\ c \notin DOMAIN state
    /\ state' = Put(state, c, EmptyState)
    /\ ret' = NoReturn
    /\ UNCHANGED <<heap, db, call, returned, now, agents>>

\* datetime.now() moves on between two calls
Tick ==
    /\ now < MaxClock
    /\ now' = now + 1
    /\ UNCHANGED <<state, heap, db, call, returned, ret, agents>>

AgentNames == {"orchestrator", "triage", "specialist", "escalation"}

SetCurrentAgent(c, agent) ==
    /\ c \in DOMAIN state
    /\ state' = [state EXCEPT ![c] =
                    Put(Put(@, "current_agent", agent), "last_activity", now)]
    /\ ret' = NoReturn
    /\ UNCHANGED <<heap, db, call, returned, now, agents>>

\* increment is the body shared by increment_turn_count and
\* increment_clarifying_questions
increment_by_two(s, key) ==
    LET count == Get(s, key, 0) + 2
    IN  [state |-> Put(s, key, count), value |-> count]

increment(s, key) ==
    LET count == Get(s, key, 0) + 1
    IN  [state |-> Put(s, key, count), value |-> count]

IncrementTurnCount(c) ==
    /\ c \in DOMAIN state
    /\ Get(state[c], "turn_count", 0) < MaxTurns
    /\ LET r == increment(state[c], "turn_count")
       IN  /\ state' = [state EXCEPT ![c] = r.state]
           /\ ret' = [op |-> "increment_turn_count", conv |-> c, arg |-> None,
                      value |-> r.value]
    /\ UNCHANGED <<heap, db, call, returned, now, agents>>

IncrementClarifyingQuestions(c) ==
    /\ c \in DOMAIN state
    /\ Get(state[c], "clarifying_questions_asked", 0) < MaxTurns
    /\ LET r == increment(state[c], "clarifying_questions_asked")
       IN  /\ state' = [state EXCEPT ![c] = r.state]
           /\ ret' = [op |-> "increment_clarifying_questions", conv |-> c,
                      arg |-> None, value |-> r.value]
    /\ UNCHANGED <<heap, db, call, returned, now, agents>>

MarkTriageComplete(c) ==
    /\ c \in DOMAIN state
    /\ state' = [state EXCEPT ![c] = Put(@, "triage_complete", TRUE)]
    /\ ret' = NoReturn
    /\ UNCHANGED <<heap, db, call, returned, now, agents>>

MarkSpecialistEngaged_ending_triage(c) ==
    /\ c \in DOMAIN state
    /\ state' = [state EXCEPT ![c] =
           Put(Put(@, "specialist_engaged", TRUE), "triage_complete", FALSE)]
    /\ ret' = NoReturn
    /\ UNCHANGED <<heap, db, call, returned, now, agents>>

MarkSpecialistEngaged(c) ==
    /\ c \in DOMAIN state
    /\ state' = [state EXCEPT ![c] = Put(@, "specialist_engaged", TRUE)]
    /\ ret' = NoReturn
    /\ UNCHANGED <<heap, db, call, returned, now, agents>>

record_kb_search(s, query) ==
    Put(Put(s, "last_kb_search", query), "last_activity", now)

RecordKbSearch(c, query) ==
    /\ c \in DOMAIN state
    /\ state' = [state EXCEPT ![c] = record_kb_search(@, query)]
    /\ ret' = NoReturn
    /\ UNCHANGED <<heap, db, call, returned, now, agents>>

MarkSystemStatusChecked(c) ==
    /\ c \in DOMAIN state
    /\ state' = [state EXCEPT ![c] = Put(@, "system_status_checked", TRUE)]
    /\ ret' = NoReturn
    /\ UNCHANGED <<heap, db, call, returned, now, agents>>

----------------------------------------------------------------------------
(* session/state_helpers.py: should_escalate *)

RECURSIVE CountNotHelpful(_)
\* sum(1 for s in solutions if s.get("result") == "not_helpful")
CountNotHelpful(solutions) ==
    IF solutions = << >>
    THEN 0
    ELSE (IF Get(Head(solutions), "result", None) = "not_helpful" THEN 1 ELSE 0)
         + CountNotHelpful(Tail(solutions))

\* should_escalate with the attempt threshold compared by > instead of >=
should_escalate_strict(s, max_attempts) ==
    LET failed_attempts == CountNotHelpful(get_attempted_solutions(s))
    IN  \/ failed_attempts > max_attempts
        \/ Get(s, "escalation_requested", FALSE)
        \/ Get(s, "user_frustration_level", None) = "angry"

\* should_escalate deciding on the failed attempts and the mood alone
should_escalate_without_request(s, max_attempts) ==
    LET failed_attempts == CountNotHelpful(get_attempted_solutions(s))
    IN  \/ failed_attempts >= max_attempts
        \/ Get(s, "user_frustration_level", None) = "angry"

should_escalate(s, max_attempts) ==
    LET failed_attempts == CountNotHelpful(get_attempted_solutions(s))
    IN  IF failed_attempts >= max_attempts
        THEN TRUE
        ELSE IF Get(s, "escalation_requested", FALSE)
             THEN TRUE
             ELSE IF Get(s, "user_frustration_level", None) = "angry"
                  THEN TRUE
                  ELSE FALSE

ShouldEscalate(c, max_attempts) ==
    /\ c \in DOMAIN state
    /\ ret' = [ op |-> "should_escalate",
                conv |-> c,
                arg |-> max_attempts,
                value |-> should_escalate(state[c], max_attempts) ]
    /\ UNCHANGED <<state, heap, db, call, returned, now, agents>>

----------------------------------------------------------------------------
(* tools/user_context.py *)

MOCK_USERS ==
    [ user_123 |-> [ name |-> "John Smith", email |-> "john.smith@example.com",
                     plan |-> "Pro", account_status |-> "active",
                     recent_tickets |-> <<"TICKET-456", "TICKET-234">> ],
      user_456 |-> [ name |-> "Jane Doe", email |-> "jane.doe@company.com",
                     plan |-> "Enterprise", account_status |-> "active",
                     recent_tickets |-> << >> ],
      demo_user |-> [ name |-> "Jack Sparrow", email |-> "demo@example.com",
                      plan |-> "Standard", account_status |-> "active",
                      recent_tickets |-> <<"TICKET-789">> ] ]

DEFAULT_USER_ID == "demo_user"

\* user_id arguments get_user_context is called with (None: argument omitted)
LookupArgs == {None, "user_123", "user_456", "user_000"}

\* the id get_user_context looks up: `user_id or DEFAULT_USER_ID`
LookupId(user_id) == IF Truthy(user_id) THEN user_id ELSE DEFAULT_USER_ID

GetUserContext(c, user_id) ==
    /\ c \in DOMAIN state
    /\ LET lookup_id == LookupId(user_id)
       IN  IF lookup_id \in DOMAIN MOCK_USERS
           THEN LET user == MOCK_USERS[lookup_id]
                IN  /\ state' = [state EXCEPT ![c] =
                           set_user_info(@, user.name, user.plan, lookup_id,
                                         user.recent_tickets)]
                    /\ ret' = [ op |-> "get_user_context", conv |-> c, arg |-> user_id,
                                value |->
                                  [ status |-> "success",
                                    user |-> [ name |-> user.name,
                                               email |-> user.email,
                                               plan |-> user.plan,
                                               account_status |-> user.account_status ],
                                    support_context |->
                                      [ recent_tickets |-> user.recent_tickets,
                                        ticket_count |-> Len(user.recent_tickets) ] ] ]
           ELSE /\ UNCHANGED state
                /\ ret' = [ op |-> "get_user_context", conv |-> c, arg |-> user_id,
                            value |->
                              [ status |-> "error",
                                error_message |->
                                    "User '" \o lookup_id \o "' not found in the system",
                                suggestion |->
                                    "Please verify the user ID or proceed without user context" ] ]
    /\ UNCHANGED <<heap, db, call, returned, now, agents>>

----------------------------------------------------------------------------
(* tools/ticket_system.py *)

TICKET_DATABASE ==
    [ k \in {"TICKET-789", "TICKET-456", "TICKET-234", "TICKET-567"} |->
        CASE k = "TICKET-789" ->
                [ id |-> "TICKET-789", title |-> "Cannot connect to API",
                  category |-> "integration", priority |-> "high",
                  status |-> "resolved", assigned_team |-> "integration_team",
                  created_at |-> "2024-12-20T10:00:00Z",
                  resolved_at |-> "2024-12-20T14:30:00Z",
                  description |-> "User unable to authenticate with API using provided key",
                  resolution |-> "API key was for test environment, provided production key" ]
          [] k = "TICKET-456" ->
                [ id |-> "TICKET-456", title |-> "Webhook events not received",
                  category |-> "integration", priority |-> "high",
                  status |-> "resolved", assigned_team |-> "integration_team",
                  created_at |-> "2024-11-15T08:00:00Z",
                  resolved_at |-> "2024-11-15T12:00:00Z",
                  description |-> "Customer's webhook endpoint stopped receiving events after API v2 update",
                  resolution |-> "Webhook secret was regenerated during API update. Customer needed to update their verification code with new secret." ]
          [] k = "TICKET-234" ->
                [ id |-> "TICKET-234", title |-> "Billing discrepancy",
                  category |-> "billing", priority |-> "medium",
                  status |-> "resolved", assigned_team |-> "finance_team",
                  created_at |-> "2024-10-05T14:00:00Z",
                  resolved_at |-> "2024-10-06T09:00:00Z",
                  description |-> "Customer charged twice for the same month",
                  resolution |-> "Duplicate charge refunded, billing system bug fixed" ]
          [] k = "TICKET-567" ->
                [ id |-> "TICKET-567", title |-> "Performance degradation on dashboard",
                  category |-> "performance", priority |-> "medium",
                  status |-> "resolved", assigned_team |-> "infrastructure_team",
                  created_at |-> "2024-11-20T16:00:00Z",
                  resolved_at |-> "2024-11-21T10:00:00Z",
                  description |-> "Dashboard loading very slowly, 10+ seconds per page",
                  resolution |-> "Database index added, caching layer implemented" ] ]

TEAM_ASSIGNMENTS ==
    [ password_reset |-> "account_team",
      billing |-> "finance_team",
      order |-> "order_fullfillment_team",
      bug_report |-> "engineering_team",
      feature_question |-> "product_team",
      performance |-> "infrastructure_team",
      security |-> "security_team",
      unknown |-> "general_support" ]

RESPONSE_SLAS == [critical |-> 1, high |-> 4, medium |-> 8, low |-> 24]

\* smallest number random.randint draws
RandLo == 1000

\* every value _generate_ticket_id can return
GeneratedIds == {"TICKET-" \o ToString(number) : number \in RandLo .. RandHi}

\* the ids create_ticket would use without the `while` loop
UncheckedIds(database) == GeneratedIds

\* the ids on which `while ticket_id in TICKET_DATABASE` exits
UniqueIds(database) == {ticket_id \in GeneratedIds : ticket_id \notin DOMAIN database}

\* arguments create_ticket is called with; an omitted attempted_solutions is << >>
CreateTicketArgs ==
    { [ summary |-> "Webhook signature verification failing", category |-> "integration",
        priority |-> "high", description |-> "details",
        attempted_solutions |-> << >>, user_id |-> None ],
      [ summary |-> "Charged twice", category |-> "billing",
        priority |-> "critical", description |-> "details",
        attempted_solutions |-> <<"cleared cache">>, user_id |-> "user_456" ] }

\* [s.get("solution", "") for s in state_solutions]
SolutionTexts(solutions) ==
    [i \in 1 .. Len(solutions) |-> Get(solutions[i], "solution", "")]

\* the ticket dict with the level and the turn left at their defaults
NewTicket_defaults(s, ticket_id, args) ==
    LET attempted_solutions ==
            IF args.attempted_solutions = << >>
            THEN SolutionTexts(get_attempted_solutions(s))
            ELSE args.attempted_solutions
        user_id == IF Truthy(args.user_id) THEN args.user_id ELSE Get(s, "user_id", None)
    IN  [ id |-> ticket_id,
          title |-> args.summary,
          category |-> args.category,
          priority |-> args.priority,
          status |-> "open",
          assigned_team |-> Get(TEAM_ASSIGNMENTS, args.category, "general_support"),
          created_at |-> now,
          description |-> args.description,
          attempted_solutions |-> attempted_solutions,
          user_id |-> user_id,
          frustration_level |-> "normal",
          turn_count |-> 0 ]

\* the ticket dict create_ticket builds for ticket_id
NewTicket(s, ticket_id, args) ==
    LET attempted_solutions ==
            IF args.attempted_solutions = << >>
            THEN SolutionTexts(get_attempted_solutions(s))
            ELSE args.attempted_solutions
        user_id == IF Truthy(args.user_id) THEN args.user_id ELSE Get(s, "user_id", None)
    IN  [ id |-> ticket_id,
          title |-> args.summary,
          category |-> args.category,
          priority |-> args.priority,
          status |-> "open",
          assigned_team |-> Get(TEAM_ASSIGNMENTS, args.category, "general_support"),
          created_at |-> now,
          description |-> args.description,
          attempted_solutions |-> attempted_solutions,
          user_id |-> user_id,
          frustration_level |-> Get(s, "user_frustration_level", "normal"),
          turn_count |-> Get(s, "turn_count", 0) ]

\* the result dict create_ticket returns, with the conversation that called it
TicketResult(c, ticket_id, args) ==
    [ conv |-> c,
      status |-> "success",
      ticket_id |-> ticket_id,
      assigned_team |-> Get(TEAM_ASSIGNMENTS, args.category, "general_support"),
      estimated_response |-> Get(RESPONSE_SLAS, args.priority, 24),
      priority |-> args.priority ]

\* create_ticket run from call to return with nothing in between
CreateTicket(c, args) ==
    /\ c \in DOMAIN state
    /\ Len(returned) < MaxTickets
    /\ \E ticket_id \in UniqueIds(db) :
          /\ db' = Put(db, ticket_id, NewTicket(state[c], ticket_id, args))
          /\ state' = [state EXCEPT ![c] = set_escalation_requested(@, ticket_id)]
          /\ returned' = Append(returned, TicketResult(c, ticket_id, args))
          /\ ret' = [ op |-> "create_ticket", conv |-> c, arg |-> args,
                      value |-> TicketResult(c, ticket_id, args) ]
    /\ UNCHANGED <<heap, call, now, agents>>

----------------------------------------------------------------------------
(* create_ticket run by several conversations at once: each call advances  *)
(* one statement group at a time and other calls run in between            *)

Idle == [pc |-> "idle"]

\* line 134: ticket_id = _generate_ticket_id()
CtGenerate(c, args) ==
    /\ c \in DOMAIN state
    /\ call[c].pc = "idle"
    /\ Len(returned) + Cardinality({d \in Conv : call[d].pc # "idle"}) < MaxTickets
    /\ \E ticket_id \in GeneratedIds :
          call' = [call EXCEPT ![c] = [pc |-> "check", args |-> args, ticket_id |-> ticket_id]]
    /\ UNCHANGED <<state, heap, db, returned, ret, now, agents>>

\* line 134 again, for as many calls as are made: the ids that exist bound
\* the tickets that can be stored
CtCall(c, args) ==
    /\ c \in DOMAIN state
    /\ call[c].pc = "idle"
    /\ \E ticket_id \in GeneratedIds :
          call' = [call EXCEPT ![c] = [pc |-> "check", args |-> args, ticket_id |-> ticket_id]]
    /\ UNCHANGED <<state, heap, db, returned, ret, now, agents>>

\* lines 137-138: the id is in TICKET_DATABASE, draw another
CtReroll(c) ==
    /\ call[c].pc = "check"
    /\ call[c].ticket_id \in DOMAIN db
    /\ \E ticket_id \in GeneratedIds :
          call' = [call EXCEPT ![c].ticket_id = ticket_id]
    /\ UNCHANGED <<state, heap, db, returned, ret, now, agents>>

\* line 137: the id is not in TICKET_DATABASE, the loop exits
CtUnique(c) ==
    /\ call[c].pc = "check"
    /\ call[c].ticket_id \notin DOMAIN db
    /\ call' = [call EXCEPT ![c].pc = "store"]
    /\ UNCHANGED <<state, heap, db, returned, ret, now, agents>>

\* lines 140-172: build the ticket and store it
CtStore(c) ==
    /\ call[c].pc = "store"
    /\ db' = Put(db, call[c].ticket_id, NewTicket(state[c], call[c].ticket_id, call[c].args))
    /\ call' = [call EXCEPT ![c].pc = "record"]
    /\ UNCHANGED <<state, heap, returned, ret, now, agents>>

\* lines 175-189: record the escalation in the session and return
CtRecord(c) ==
    /\ call[c].pc = "record"
    /\ state' = [state EXCEPT ![c] = set_escalation_requested(@, call[c].ticket_id)]
    /\ returned' = Append(returned, TicketResult(c, call[c].ticket_id, call[c].args))
    /\ ret' = [ op |-> "create_ticket", conv |-> c, arg |-> call[c].args,
                value |-> TicketResult(c, call[c].ticket_id, call[c].args) ]
    /\ call' = [call EXCEPT ![c] = Idle]
    /\ UNCHANGED <<heap, db, now, agents>>

----------------------------------------------------------------------------
(* session/state_helpers.py: the issue and the escalation hand-off *)

\* `v is None`, for a value that is None or a dict
IsNone(v) == ToString(v) = ToString(None)

get_issue_context(s) == Get(s, "issue", None)

\* get_turn_count reading the solution counter
get_turn_count_of_attempts(s) == Get(s, "solution_attempts_count", 0)

get_turn_count(s) == Get(s, "turn_count", 0)

get_user_info(s) ==
    [ user_id |-> Get(s, "user_id", None),
      user_name |-> Get(s, "user_name", None),
      user_plan |-> Get(s, "user_plan", None) ]

\* issue classifications set_issue_context is called with (error_type and
\* keywords omitted in the second); confidence is written in tenths
IssueArgs ==
    { [ category |-> "integration", priority |-> "high", confidence |-> 9,
        description_summary |-> "Webhook signature verification failing",
        error_type |-> "signature_mismatch", keywords |-> <<"webhook", "signature">> ],
      [ category |-> "billing", priority |-> "critical", confidence |-> 7,
        description_summary |-> "Charged twice",
        error_type |-> None, keywords |-> << >> ] }

SetIssueContext(c, args) ==
    /\ c \in DOMAIN state
    /\ LET issue == [ category |-> args.category,
                      priority |-> args.priority,
                      confidence |-> args.confidence,
                      description_summary |-> args.description_summary,
                      error_type |-> args.error_type,
                      keywords |-> args.keywords,
                      classified_at |-> now ]
       IN  state' = [state EXCEPT ![c] = Put(Put(@, "issue", issue), "last_activity", now)]
    /\ ret' = NoReturn
    /\ UNCHANGED <<heap, db, call, returned, now, agents>>

\* the comprehension over the attempts, walking the list backwards
attempt_summaries_reversed(solutions) ==
    [ i \in 1 .. Len(solutions) |->
        [ solution |-> solutions[Len(solutions) + 1 - i].solution,
          result |-> solutions[Len(solutions) + 1 - i].result,
          agent |-> solutions[Len(solutions) + 1 - i].agent ] ]

\* [{"solution": ..., "result": ..., "agent": ...} for s in solutions]
attempt_summaries(solutions) ==
    [ i \in 1 .. Len(solutions) |->
        [ solution |-> solutions[i].solution,
          result |-> solutions[i].result,
          agent |-> solutions[i].agent ] ]

get_escalation_context(s) ==
    LET classified == get_issue_context(s)
        issue == IF IsNone(classified) THEN EmptyState ELSE classified
    IN  [ issue_summary |-> Get(issue, "description_summary", "No summary available"),
          category |-> Get(issue, "category", "unknown"),
          priority |-> Get(issue, "priority", "medium"),
          error_type |-> Get(issue, "error_type", None),
          attempted_solutions |-> attempt_summaries(get_attempted_solutions(s)),
          turn_count |-> get_turn_count(s),
          user_info |-> get_user_info(s),
          frustration_level |-> Get(s, "user_frustration_level", "normal") ]

GetEscalationContext(c) ==
    /\ c \in DOMAIN state
    /\ ret' = [ op |-> "get_escalation_context", conv |-> c, arg |-> None,
                value |-> get_escalation_context(state[c]) ]
    /\ UNCHANGED <<state, heap, db, call, returned, now, agents>>

----------------------------------------------------------------------------
(* tools/ticket_system.py: assign_to_team and get_ticket_status *)

ESCALATION_PATHS ==
    [ account_team |-> "customer_success_manager",
      finance_team |-> "finance_director",
      engineering_team |-> "engineering_lead",
      product_team |-> "product_manager",
      integration_team |-> "technical_architect",
      infrastructure_team |-> "sre_lead",
      security_team |-> "security_officer",
      general_support |-> "support_manager" ]

\* team.replace('_', ' ').title() of every team TEAM_ASSIGNMENTS.get can give
TeamTitle ==
    [ account_team |-> "Account Team",
      finance_team |-> "Finance Team",
      order_fullfillment_team |-> "Order Fullfillment Team",
      engineering_team |-> "Engineering Team",
      product_team |-> "Product Team",
      infrastructure_team |-> "Infrastructure Team",
      security_team |-> "Security Team",
      general_support |-> "General Support" ]

\* categories and priorities assign_to_team is called with: every key of the
\* two tables and values that are in neither
RouteCategories == DOMAIN TEAM_ASSIGNMENTS \cup {"integration", "shipping"}
RoutePriorities == DOMAIN RESPONSE_SLAS \cup {"urgent"}

\* RESPONSE_SLAS.get falling back to the medium SLA
sla_hours_default_medium(priority) == Get(RESPONSE_SLAS, priority, 8)

\* RESPONSE_SLAS.get(priority, 24)
sla_hours(priority) == Get(RESPONSE_SLAS, priority, 24)

assign_to_team(category, priority) ==
    LET team == Get(TEAM_ASSIGNMENTS, category, "general_support")
        result ==
            [ status |-> "success",
              team |-> team,
              team_description |->
                  "The " \o TeamTitle[team] \o " handles " \o category \o " issues",
              response_sla |-> ToString(sla_hours(priority)) \o " hours",
              escalation_path |-> Get(ESCALATION_PATHS, team, "support_manager") ]
    IN  IF priority \in {"critical", "high"}
        THEN Put(result, "urgency_note",
                 "This is a " \o priority
                     \o " priority issue - team will be notified immediately")
        ELSE result

AssignToTeam(c, category, priority) ==
    /\ c \in DOMAIN state
    /\ ret' = [ op |-> "assign_to_team", conv |-> c,
                arg |-> [category |-> category, priority |-> priority],
                value |-> assign_to_team(category, priority) ]
    /\ UNCHANGED <<state, heap, db, call, returned, now, agents>>

\* ticket ids get_ticket_status is called with
TicketIdArgs == {"TICKET-789", "TICKET-234", "TICKET-000", "TICKET-" \o ToString(RandLo)}

get_ticket_status(database, ticket_id) ==
    IF ticket_id \in DOMAIN database
    THEN LET ticket == database[ticket_id]
             shown == [ id |-> ticket.id,
                        title |-> ticket.title,
                        status |-> ticket.status,
                        priority |-> ticket.priority,
                        assigned_team |-> ticket.assigned_team,
                        created_at |-> ticket.created_at ]
         IN  [ status |-> "success",
               ticket |-> IF ticket.status = "resolved"
                          THEN Put(Put(shown, "resolved_at", Get(ticket, "resolved_at", None)),
                                   "resolution", Get(ticket, "resolution", None))
                          ELSE shown ]
    ELSE [ status |-> "error",
           error_message |-> "Ticket '" \o ticket_id \o "' not found" ]

GetTicketStatus(c, ticket_id) ==
    /\ c \in DOMAIN state
    /\ ret' = [ op |-> "get_ticket_status", conv |-> c, arg |-> ticket_id,
                value |-> get_ticket_status(db, ticket_id) ]
    /\ UNCHANGED <<state, heap, db, call, returned, now, agents>>

----------------------------------------------------------------------------
(* tools/order_tools.py *)

orders_db ==
    [ k \in {"101", "102", "103"} |->
        CASE k = "101" -> [status |-> "Delivered", item |-> "Smart Speaker"]
          [] k = "102" -> [status |-> "In Transit", item |-> "Pixel Buds Pro"]
          [] k = "103" -> [status |-> "Processing", item |-> "Phone Case"] ]

\* order ids get_order_status is called with
OrderIdArgs == {"101", "103", "999"}

\* a str the tool returns where the other tools return a dict: the dict-like
\* value with the one key "str", so that a key lookup on it is defined
Str(text) == [str |-> text]

get_order_status(order_id) ==
    IF order_id \in DOMAIN orders_db
    THEN Str("Order " \o order_id \o " (" \o orders_db[order_id].item
                 \o "): Status - " \o orders_db[order_id].status \o ".")
    ELSE Str("Order ID " \o order_id \o " not found.")

\* get_order_status takes no tool_context: it belongs to no conversation
GetOrderStatus(order_id) ==
    /\ ret' = [ op |-> "get_order_status", conv |-> "none", arg |-> order_id,
                value |-> get_order_status(order_id) ]
    /\ UNCHANGED <<state, heap, db, call, returned, now, agents>>

----------------------------------------------------------------------------
(* The strings of the ticket and knowledge-base corpora *)

\* the characters of every string the searches scan
Chars ==
    ("Cannot connect to API" :>
        <<"C", "a", "n", "n", "o", "t", " ", "c", "o", "n", "n", "e", "c", "t", " ", "t", "o", " ", "A", "P", "I">>) @@
    ("User unable to authenticate with API using provided key" :>
        <<"U", "s", "e", "r", " ", "u", "n", "a", "b", "l", "e", " ", "t", "o", " ", "a", "u", "t", "h", "e", "n", "t", "i", "c", "a", "t", "e", " ", "w", "i", "t", "h", " ", "A", "P", "I", " ", "u", "s", "i", "n", "g", " ", "p", "r", "o", "v", "i", "d", "e", "d", " ", "k", "e", "y">>) @@
    ("Webhook events not received" :>
        <<"W", "e", "b", "h", "o", "o", "k", " ", "e", "v", "e", "n", "t", "s", " ", "n", "o", "t", " ", "r", "e", "c", "e", "i", "v", "e", "d">>) @@
    ("Customer's webhook endpoint stopped receiving events after API v2 update" :>
        <<"C", "u", "s", "t", "o", "m", "e", "r", "'", "s", " ", "w", "e", "b", "h", "o", "o", "k", " ", "e", "n", "d", "p", "o", "i", "n", "t", " ", "s", "t", "o", "p", "p", "e", "d", " ", "r", "e", "c", "e", "i", "v", "i", "n", "g", " ", "e", "v", "e", "n", "t", "s", " ", "a", "f", "t", "e", "r", " ", "A", "P", "I", " ", "v", "2", " ", "u", "p", "d", "a", "t", "e">>) @@
    ("Billing discrepancy" :>
        <<"B", "i", "l", "l", "i", "n", "g", " ", "d", "i", "s", "c", "r", "e", "p", "a", "n", "c", "y">>) @@
    ("Customer charged twice for the same month" :>
        <<"C", "u", "s", "t", "o", "m", "e", "r", " ", "c", "h", "a", "r", "g", "e", "d", " ", "t", "w", "i", "c", "e", " ", "f", "o", "r", " ", "t", "h", "e", " ", "s", "a", "m", "e", " ", "m", "o", "n", "t", "h">>) @@
    ("Performance degradation on dashboard" :>
        <<"P", "e", "r", "f", "o", "r", "m", "a", "n", "c", "e", " ", "d", "e", "g", "r", "a", "d", "a", "t", "i", "o", "n", " ", "o", "n", " ", "d", "a", "s", "h", "b", "o", "a", "r", "d">>) @@
    ("Dashboard loading very slowly, 10+ seconds per page" :>
        <<"D", "a", "s", "h", "b", "o", "a", "r", "d", " ", "l", "o", "a", "d", "i", "n", "g", " ", "v", "e", "r", "y", " ", "s", "l", "o", "w", "l", "y", ",", " ", "1", "0", "+", " ", "s", "e", "c", "o", "n", "d", "s", " ", "p", "e", "r", " ", "p", "a", "g", "e">>) @@
    ("Webhook signature verification failing" :>
        <<"W", "e", "b", "h", "o", "o", "k", " ", "s", "i", "g", "n", "a", "t", "u", "r", "e", " ", "v", "e", "r", "i", "f", "i", "c", "a", "t", "i", "o", "n", " ", "f", "a", "i", "l", "i", "n", "g">>) @@
    ("Charged twice" :>
        <<"C", "h", "a", "r", "g", "e", "d", " ", "t", "w", "i", "c", "e">>) @@
    ("details" :>
        <<"d", "e", "t", "a", "i", "l", "s">>) @@
    ("webhook endpoint not receiving events" :>
        <<"w", "e", "b", "h", "o", "o", "k", " ", "e", "n", "d", "p", "o", "i", "n", "t", " ", "n", "o", "t", " ", "r", "e", "c", "e", "i", "v", "i", "n", "g", " ", "e", "v", "e", "n", "t", "s">>) @@
    ("billing charged twice" :>
        <<"b", "i", "l", "l", "i", "n", "g", " ", "c", "h", "a", "r", "g", "e", "d", " ", "t", "w", "i", "c", "e">>) @@
    ("webhook WEBHOOK events" :>
        <<"w", "e", "b", "h", "o", "o", "k", " ", "W", "E", "B", "H", "O", "O", "K", " ", "e", "v", "e", "n", "t", "s">>) @@
    ("hook event" :>
        <<"h", "o", "o", "k", " ", "e", "v", "e", "n", "t">>) @@
    ("nothing matches" :>
        <<"n", "o", "t", "h", "i", "n", "g", " ", "m", "a", "t", "c", "h", "e", "s">>) @@
    ("" :>
        <<>>) @@
    ("How to Reset Your Password" :>
        <<"H", "o", "w", " ", "t", "o", " ", "R", "e", "s", "e", "t", " ", "Y", "o", "u", "r", " ", "P", "a", "s", "s", "w", "o", "r", "d">>) @@
    ("To reset your password:\n1. Go to the login page and click 'Forgot Password'\n2. Enter your email address\n3. Check your inbox for a reset link (check spam folder too)\n4. Click the link and create a new password\n5. Password must be at least 8 characters with one number and one special character\n\nIf you don't receive the email within 5 minutes, contact support." :>
        <<"T", "o", " ", "r", "e", "s", "e", "t", " ", "y", "o", "u", "r", " ", "p", "a", "s", "s", "w", "o", "r", "d", ":", "\n", "1", ".", " ", "G", "o", " ", "t", "o", " ", "t", "h", "e", " ", "l", "o", "g", "i", "n", " ", "p", "a", "g", "e", " ", "a", "n", "d", " ", "c", "l", "i", "c", "k", " ", "'", "F", "o", "r", "g", "o", "t", " ", "P", "a", "s", "s", "w", "o", "r", "d", "'", "\n", "2", ".", " ", "E", "n", "t", "e", "r", " ", "y", "o", "u", "r", " ", "e", "m", "a", "i", "l", " ", "a", "d", "d", "r", "e", "s", "s", "\n", "3", ".", " ", "C", "h", "e", "c", "k", " ", "y", "o", "u", "r", " ", "i", "n", "b", "o", "x", " ", "f", "o", "r", " ", "a", " ", "r", "e", "s", "e", "t", " ", "l", "i", "n", "k", " ", "(", "c", "h", "e", "c", "k", " ", "s", "p", "a", "m", " ", "f", "o", "l", "d", "e", "r", " ", "t", "o", "o", ")", "\n", "4", ".", " ", "C", "l", "i", "c", "k", " ", "t", "h", "e", " ", "l", "i", "n", "k", " ", "a", "n", "d", " ", "c", "r", "e", "a", "t", "e", " ", "a", " ", "n", "e", "w", " ", "p", "a", "s", "s", "w", "o", "r", "d", "\n", "5", ".", " ", "P", "a", "s", "s", "w", "o", "r", "d", " ", "m", "u", "s", "t", " ", "b", "e", " ", "a", "t", " ", "l", "e", "a", "s", "t", " ", "8", " ", "c", "h", "a", "r", "a", "c", "t", "e", "r", "s", " ", "w", "i", "t", "h", " ", "o", "n", "e", " ", "n", "u", "m", "b", "e", "r", " ", "a", "n", "d", " ", "o", "n", "e", " ", "s", "p", "e", "c", "i", "a", "l", " ", "c", "h", "a", "r", "a", "c", "t", "e", "r", "\n", "\n", "I", "f", " ", "y", "o", "u", " ", "d", "o", "n", "'", "t", " ", "r", "e", "c", "e", "i", "v", "e", " ", "t", "h", "e", " ", "e", "m", "a", "i", "l", " ", "w", "i", "t", "h", "i", "n", " ", "5", " ", "m", "i", "n", "u", "t", "e", "s", ",", " ", "c", "o", "n", "t", "a", "c", "t", " ", "s", "u", "p", "p", "o", "r", "t", ".">>) @@
    ("password" :>
        <<"p", "a", "s", "s", "w", "o", "r", "d">>) @@
    ("reset" :>
        <<"r", "e", "s", "e", "t">>) @@
    ("forgot" :>
        <<"f", "o", "r", "g", "o", "t">>) @@
    ("login" :>
        <<"l", "o", "g", "i", "n">>) @@
    ("access" :>
        <<"a", "c", "c", "e", "s", "s">>) @@
    ("Webhook Configuration Guide" :>
        <<"W", "e", "b", "h", "o", "o", "k", " ", "C", "o", "n", "f", "i", "g", "u", "r", "a", "t", "i", "o", "n", " ", "G", "u", "i", "d", "e">>) @@
    ("Setting up webhooks:\n1. Navigate to Settings > Integrations > Webhooks\n2. Click 'Add Webhook Endpoint'\n3. Enter your endpoint URL (must be HTTPS)\n4. Select the events you want to receive\n5. Copy the webhook secret for signature verification\n\nCommon issues:\n- Signature mismatch: Regenerate your webhook secret and update your code\n- Events not received: Check your endpoint returns 200 OK within 30 seconds\n- SSL errors: Ensure your certificate is valid and not self-signed" :>
        <<"S", "e", "t", "t", "i", "n", "g", " ", "u", "p", " ", "w", "e", "b", "h", "o", "o", "k", "s", ":", "\n", "1", ".", " ", "N", "a", "v", "i", "g", "a", "t", "e", " ", "t", "o", " ", "S", "e", "t", "t", "i", "n", "g", "s", " ", ">", " ", "I", "n", "t", "e", "g", "r", "a", "t", "i", "o", "n", "s", " ", ">", " ", "W", "e", "b", "h", "o", "o", "k", "s", "\n", "2", ".", " ", "C", "l", "i", "c", "k", " ", "'", "A", "d", "d", " ", "W", "e", "b", "h", "o", "o", "k", " ", "E", "n", "d", "p", "o", "i", "n", "t", "'", "\n", "3", ".", " ", "E", "n", "t", "e", "r", " ", "y", "o", "u", "r", " ", "e", "n", "d", "p", "o", "i", "n", "t", " ", "U", "R", "L", " ", "(", "m", "u", "s", "t", " ", "b", "e", " ", "H", "T", "T", "P", "S", ")", "\n", "4", ".", " ", "S", "e", "l", "e", "c", "t", " ", "t", "h", "e", " ", "e", "v", "e", "n", "t", "s", " ", "y", "o", "u", " ", "w", "a", "n", "t", " ", "t", "o", " ", "r", "e", "c", "e", "i", "v", "e", "\n", "5", ".", " ", "C", "o", "p", "y", " ", "t", "h", "e", " ", "w", "e", "b", "h", "o", "o", "k", " ", "s", "e", "c", "r", "e", "t", " ", "f", "o", "r", " ", "s", "i", "g", "n", "a", "t", "u", "r", "e", " ", "v", "e", "r", "i", "f", "i", "c", "a", "t", "i", "o", "n", "\n", "\n", "C", "o", "m", "m", "o", "n", " ", "i", "s", "s", "u", "e", "s", ":", "\n", "-", " ", "S", "i", "g", "n", "a", "t", "u", "r", "e", " ", "m", "i", "s", "m", "a", "t", "c", "h", ":", " ", "R", "e", "g", "e", "n", "e", "r", "a", "t", "e", " ", "y", "o", "u", "r", " ", "w", "e", "b", "h", "o", "o", "k", " ", "s", "e", "c", "r", "e", "t", " ", "a", "n", "d", " ", "u", "p", "d", "a", "t", "e", " ", "y", "o", "u", "r", " ", "c", "o", "d", "e", "\n", "-", " ", "E", "v", "e", "n", "t", "s", " ", "n", "o", "t", " ", "r", "e", "c", "e", "i", "v", "e", "d", ":", " ", "C", "h", "e", "c", "k", " ", "y", "o", "u", "r", " ", "e", "n", "d", "p", "o", "i", "n", "t", " ", "r", "e", "t", "u", "r", "n", "s", " ", "2", "0", "0", " ", "O", "K", " ", "w", "i", "t", "h", "i", "n", " ", "3", "0", " ", "s", "e", "c", "o", "n", "d", "s", "\n", "-", " ", "S", "S", "L", " ", "e", "r", "r", "o", "r", "s", ":", " ", "E", "n", "s", "u", "r", "e", " ", "y", "o", "u", "r", " ", "c", "e", "r", "t", "i", "f", "i", "c", "a", "t", "e", " ", "i", "s", " ", "v", "a", "l", "i", "d", " ", "a", "n", "d", " ", "n", "o", "t", " ", "s", "e", "l", "f", "-", "s", "i", "g", "n", "e", "d">>) @@
    ("webhook" :>
        <<"w", "e", "b", "h", "o", "o", "k">>) @@
    ("integration" :>
        <<"i", "n", "t", "e", "g", "r", "a", "t", "i", "o", "n">>) @@
    ("api" :>
        <<"a", "p", "i">>) @@
    ("events" :>
        <<"e", "v", "e", "n", "t", "s">>) @@
    ("endpoint" :>
        <<"e", "n", "d", "p", "o", "i", "n", "t">>) @@
    ("signature" :>
        <<"s", "i", "g", "n", "a", "t", "u", "r", "e">>) @@
    ("API Authentication Guide" :>
        <<"A", "P", "I", " ", "A", "u", "t", "h", "e", "n", "t", "i", "c", "a", "t", "i", "o", "n", " ", "G", "u", "i", "d", "e">>) @@
    ("API Authentication:\n1. Generate an API key from Settings > API Keys\n2. Include the key in the Authorization header: 'Bearer YOUR_API_KEY'\n3. API keys are environment-specific (test/production)\n\nRate limits:\n- Standard plan: 100 requests/minute\n- Pro plan: 1000 requests/minute\n- Enterprise: Custom limits\n\nIf you receive 401 errors, verify your API key is correct and active." :>
        <<"A", "P", "I", " ", "A", "u", "t", "h", "e", "n", "t", "i", "c", "a", "t", "i", "o", "n", ":", "\n", "1", ".", " ", "G", "e", "n", "e", "r", "a", "t", "e", " ", "a", "n", " ", "A", "P", "I", " ", "k", "e", "y", " ", "f", "r", "o", "m", " ", "S", "e", "t", "t", "i", "n", "g", "s", " ", ">", " ", "A", "P", "I", " ", "K", "e", "y", "s", "\n", "2", ".", " ", "I", "n", "c", "l", "u", "d", "e", " ", "t", "h", "e", " ", "k", "e", "y", " ", "i", "n", " ", "t", "h", "e", " ", "A", "u", "t", "h", "o", "r", "i", "z", "a", "t", "i", "o", "n", " ", "h", "e", "a", "d", "e", "r", ":", " ", "'", "B", "e", "a", "r", "e", "r", " ", "Y", "O", "U", "R", "_", "A", "P", "I", "_", "K", "E", "Y", "'", "\n", "3", ".", " ", "A", "P", "I", " ", "k", "e", "y", "s", " ", "a", "r", "e", " ", "e", "n", "v", "i", "r", "o", "n", "m", "e", "n", "t", "-", "s", "p", "e", "c", "i", "f", "i", "c", " ", "(", "t", "e", "s", "t", "/", "p", "r", "o", "d", "u", "c", "t", "i", "o", "n", ")", "\n", "\n", "R", "a", "t", "e", " ", "l", "i", "m", "i", "t", "s", ":", "\n", "-", " ", "S", "t", "a", "n", "d", "a", "r", "d", " ", "p", "l", "a", "n", ":", " ", "1", "0", "0", " ", "r", "e", "q", "u", "e", "s", "t", "s", "/", "m", "i", "n", "u", "t", "e", "\n", "-", " ", "P", "r", "o", " ", "p", "l", "a", "n", ":", " ", "1", "0", "0", "0", " ", "r", "e", "q", "u", "e", "s", "t", "s", "/", "m", "i", "n", "u", "t", "e", "\n", "-", " ", "E", "n", "t", "e", "r", "p", "r", "i", "s", "e", ":", " ", "C", "u", "s", "t", "o", "m", " ", "l", "i", "m", "i", "t", "s", "\n", "\n", "I", "f", " ", "y", "o", "u", " ", "r", "e", "c", "e", "i", "v", "e", " ", "4", "0", "1", " ", "e", "r", "r", "o", "r", "s", ",", " ", "v", "e", "r", "i", "f", "y", " ", "y", "o", "u", "r", " ", "A", "P", "I", " ", "k", "e", "y", " ", "i", "s", " ", "c", "o", "r", "r", "e", "c", "t", " ", "a", "n", "d", " ", "a", "c", "t", "i", "v", "e", ".">>) @@
    ("authentication" :>
        <<"a", "u", "t", "h", "e", "n", "t", "i", "c", "a", "t", "i", "o", "n">>) @@
    ("auth" :>
        <<"a", "u", "t", "h">>) @@
    ("key" :>
        <<"k", "e", "y">>) @@
    ("401" :>
        <<"4", "0", "1">>) @@
    ("bearer" :>
        <<"b", "e", "a", "r", "e", "r">>) @@
    ("token" :>
        <<"t", "o", "k", "e", "n">>) @@
    ("Billing and Subscription FAQ" :>
        <<"B", "i", "l", "l", "i", "n", "g", " ", "a", "n", "d", " ", "S", "u", "b", "s", "c", "r", "i", "p", "t", "i", "o", "n", " ", "F", "A", "Q">>) @@
    ("Billing Information:\n- Invoices are generated on the 1st of each month\n- Payment methods: Credit card, ACH, Wire transfer (Enterprise only)\n- Upgrade/downgrade takes effect immediately, prorated billing applies\n\nCommon questions:\n- View invoices: Settings > Billing > Invoice History\n- Update payment method: Settings > Billing > Payment Methods\n- Cancel subscription: Settings > Billing > Manage Plan > Cancel" :>
        <<"B", "i", "l", "l", "i", "n", "g", " ", "I", "n", "f", "o", "r", "m", "a", "t", "i", "o", "n", ":", "\n", "-", " ", "I", "n", "v", "o", "i", "c", "e", "s", " ", "a", "r", "e", " ", "g", "e", "n", "e", "r", "a", "t", "e", "d", " ", "o", "n", " ", "t", "h", "e", " ", "1", "s", "t", " ", "o", "f", " ", "e", "a", "c", "h", " ", "m", "o", "n", "t", "h", "\n", "-", " ", "P", "a", "y", "m", "e", "n", "t", " ", "m", "e", "t", "h", "o", "d", "s", ":", " ", "C", "r", "e", "d", "i", "t", " ", "c", "a", "r", "d", ",", " ", "A", "C", "H", ",", " ", "W", "i", "r", "e", " ", "t", "r", "a", "n", "s", "f", "e", "r", " ", "(", "E", "n", "t", "e", "r", "p", "r", "i", "s", "e", " ", "o", "n", "l", "y", ")", "\n", "-", " ", "U", "p", "g", "r", "a", "d", "e", "/", "d", "o", "w", "n", "g", "r", "a", "d", "e", " ", "t", "a", "k", "e", "s", " ", "e", "f", "f", "e", "c", "t", " ", "i", "m", "m", "e", "d", "i", "a", "t", "e", "l", "y", ",", " ", "p", "r", "o", "r", "a", "t", "e", "d", " ", "b", "i", "l", "l", "i", "n", "g", " ", "a", "p", "p", "l", "i", "e", "s", "\n", "\n", "C", "o", "m", "m", "o", "n", " ", "q", "u", "e", "s", "t", "i", "o", "n", "s", ":", "\n", "-", " ", "V", "i", "e", "w", " ", "i", "n", "v", "o", "i", "c", "e", "s", ":", " ", "S", "e", "t", "t", "i", "n", "g", "s", " ", ">", " ", "B", "i", "l", "l", "i", "n", "g", " ", ">", " ", "I", "n", "v", "o", "i", "c", "e", " ", "H", "i", "s", "t", "o", "r", "y", "\n", "-", " ", "U", "p", "d", "a", "t", "e", " ", "p", "a", "y", "m", "e", "n", "t", " ", "m", "e", "t", "h", "o", "d", ":", " ", "S", "e", "t", "t", "i", "n", "g", "s", " ", ">", " ", "B", "i", "l", "l", "i", "n", "g", " ", ">", " ", "P", "a", "y", "m", "e", "n", "t", " ", "M", "e", "t", "h", "o", "d", "s", "\n", "-", " ", "C", "a", "n", "c", "e", "l", " ", "s", "u", "b", "s", "c", "r", "i", "p", "t", "i", "o", "n", ":", " ", "S", "e", "t", "t", "i", "n", "g", "s", " ", ">", " ", "B", "i", "l", "l", "i", "n", "g", " ", ">", " ", "M", "a", "n", "a", "g", "e", " ", "P", "l", "a", "n", " ", ">", " ", "C", "a", "n", "c", "e", "l">>) @@
    ("billing" :>
        <<"b", "i", "l", "l", "i", "n", "g">>) @@
    ("invoice" :>
        <<"i", "n", "v", "o", "i", "c", "e">>) @@
    ("payment" :>
        <<"p", "a", "y", "m", "e", "n", "t">>) @@
    ("subscription" :>
        <<"s", "u", "b", "s", "c", "r", "i", "p", "t", "i", "o", "n">>) @@
    ("cancel" :>
        <<"c", "a", "n", "c", "e", "l">>) @@
    ("upgrade" :>
        <<"u", "p", "g", "r", "a", "d", "e">>) @@
    ("Troubleshooting 500 Errors" :>
        <<"T", "r", "o", "u", "b", "l", "e", "s", "h", "o", "o", "t", "i", "n", "g", " ", "5", "0", "0", " ", "E", "r", "r", "o", "r", "s">>) @@
    ("If you're experiencing 500 Internal Server Errors:\n\n1. Check our status page for ongoing incidents\n2. Retry the request after a few seconds (may be temporary)\n3. If persistent, note:\n   - The exact endpoint being called\n   - Request body/parameters\n   - Time of occurrence\n   - Any error message returned\n\nCommon causes:\n- Large payload sizes (max 10MB)\n- Invalid JSON format\n- Missing required fields\n- Rate limit exceeded (returns 429, not 500)\n\nIf the issue persists, contact support with the details above." :>
        <<"I", "f", " ", "y", "o", "u", "'", "r", "e", " ", "e", "x", "p", "e", "r", "i", "e", "n", "c", "i", "n", "g", " ", "5", "0", "0", " ", "I", "n", "t", "e", "r", "n", "a", "l", " ", "S", "e", "r", "v", "e", "r", " ", "E", "r", "r", "o", "r", "s", ":", "\n", "\n", "1", ".", " ", "C", "h", "e", "c", "k", " ", "o", "u", "r", " ", "s", "t", "a", "t", "u", "s", " ", "p", "a", "g", "e", " ", "f", "o", "r", " ", "o", "n", "g", "o", "i", "n", "g", " ", "i", "n", "c", "i", "d", "e", "n", "t", "s", "\n", "2", ".", " ", "R", "e", "t", "r", "y", " ", "t", "h", "e", " ", "r", "e", "q", "u", "e", "s", "t", " ", "a", "f", "t", "e", "r", " ", "a", " ", "f", "e", "w", " ", "s", "e", "c", "o", "n", "d", "s", " ", "(", "m", "a", "y", " ", "b", "e", " ", "t", "e", "m", "p", "o", "r", "a", "r", "y", ")", "\n", "3", ".", " ", "I", "f", " ", "p", "e", "r", "s", "i", "s", "t", "e", "n", "t", ",", " ", "n", "o", "t", "e", ":", "\n", " ", " ", " ", "-", " ", "T", "h", "e", " ", "e", "x", "a", "c", "t", " ", "e", "n", "d", "p", "o", "i", "n", "t", " ", "b", "e", "i", "n", "g", " ", "c", "a", "l", "l", "e", "d", "\n", " ", " ", " ", "-", " ", "R", "e", "q", "u", "e", "s", "t", " ", "b", "o", "d", "y", "/", "p", "a", "r", "a", "m", "e", "t", "e", "r", "s", "\n", " ", " ", " ", "-", " ", "T", "i", "m", "e", " ", "o", "f", " ", "o", "c", "c", "u", "r", "r", "e", "n", "c", "e", "\n", " ", " ", " ", "-", " ", "A", "n", "y", " ", "e", "r", "r", "o", "r", " ", "m", "e", "s", "s", "a", "g", "e", " ", "r", "e", "t", "u", "r", "n", "e", "d", "\n", "\n", "C", "o", "m", "m", "o", "n", " ", "c", "a", "u", "s", "e", "s", ":", "\n", "-", " ", "L", "a", "r", "g", "e", " ", "p", "a", "y", "l", "o", "a", "d", " ", "s", "i", "z", "e", "s", " ", "(", "m", "a", "x", " ", "1", "0", "M", "B", ")", "\n", "-", " ", "I", "n", "v", "a", "l", "i", "d", " ", "J", "S", "O", "N", " ", "f", "o", "r", "m", "a", "t", "\n", "-", " ", "M", "i", "s", "s", "i", "n", "g", " ", "r", "e", "q", "u", "i", "r", "e", "d", " ", "f", "i", "e", "l", "d", "s", "\n", "-", " ", "R", "a", "t", "e", " ", "l", "i", "m", "i", "t", " ", "e", "x", "c", "e", "e", "d", "e", "d", " ", "(", "r", "e", "t", "u", "r", "n", "s", " ", "4", "2", "9", ",", " ", "n", "o", "t", " ", "5", "0", "0", ")", "\n", "\n", "I", "f", " ", "t", "h", "e", " ", "i", "s", "s", "u", "e", " ", "p", "e", "r", "s", "i", "s", "t", "s", ",", " ", "c", "o", "n", "t", "a", "c", "t", " ", "s", "u", "p", "p", "o", "r", "t", " ", "w", "i", "t", "h", " ", "t", "h", "e", " ", "d", "e", "t", "a", "i", "l", "s", " ", "a", "b", "o", "v", "e", ".">>) @@
    ("500" :>
        <<"5", "0", "0">>) @@
    ("error" :>
        <<"e", "r", "r", "o", "r">>) @@
    ("server" :>
        <<"s", "e", "r", "v", "e", "r">>) @@
    ("bug" :>
        <<"b", "u", "g">>) @@
    ("crash" :>
        <<"c", "r", "a", "s", "h">>) @@
    ("internal" :>
        <<"i", "n", "t", "e", "r", "n", "a", "l">>) @@
    ("webhook signature error" :>
        <<"w", "e", "b", "h", "o", "o", "k", " ", "s", "i", "g", "n", "a", "t", "u", "r", "e", " ", "e", "r", "r", "o", "r">>) @@
    ("rate limit" :>
        <<"r", "a", "t", "e", " ", "l", "i", "m", "i", "t">>) @@
    ("Reset Password" :>
        <<"R", "e", "s", "e", "t", " ", "P", "a", "s", "s", "w", "o", "r", "d">>) @@
    ("zzz" :>
        <<"z", "z", "z">>)

TicketQueries ==
    {"webhook endpoint not receiving events",
     "billing charged twice",
     "webhook WEBHOOK events",
     "hook event",
     "nothing matches",
     ""}

KbQueries ==
    {"webhook signature error",
     "rate limit",
     "Reset Password",
     "error",
     "zzz",
     ""}

KNOWLEDGE_BASE ==
    [articles |-> <<
        [ id |-> "KB001",
          title |-> "How to Reset Your Password",
          category |-> "password_reset",
          content |->
            "To reset your password:\n1. Go to the login page and click 'Forgot Password'\n2. Enter your email address\n3. Check your inbox for a reset link (check spam folder too)\n4. Click the link and create a new password\n5. Password must be at least 8 characters with one number and one special character\n\nIf you don't receive the email within 5 minutes, contact support.",
          keywords |-> <<"password", "reset", "forgot", "login", "access">> ],
        [ id |-> "KB002",
          title |-> "Webhook Configuration Guide",
          category |-> "integration",
          content |->
            "Setting up webhooks:\n1. Navigate to Settings > Integrations > Webhooks\n2. Click 'Add Webhook Endpoint'\n3. Enter your endpoint URL (must be HTTPS)\n4. Select the events you want to receive\n5. Copy the webhook secret for signature verification\n\nCommon issues:\n- Signature mismatch: Regenerate your webhook secret and update your code\n- Events not received: Check your endpoint returns 200 OK within 30 seconds\n- SSL errors: Ensure your certificate is valid and not self-signed",
          keywords |-> <<"webhook", "integration", "api", "events", "endpoint", "signature">> ],
        [ id |-> "KB003",
          title |-> "API Authentication Guide",
          category |-> "integration",
          content |->
            "API Authentication:\n1. Generate an API key from Settings > API Keys\n2. Include the key in the Authorization header: 'Bearer YOUR_API_KEY'\n3. API keys are environment-specific (test/production)\n\nRate limits:\n- Standard plan: 100 requests/minute\n- Pro plan: 1000 requests/minute\n- Enterprise: Custom limits\n\nIf you receive 401 errors, verify your API key is correct and active.",
          keywords |-> <<"api", "authentication", "auth", "key", "401", "bearer", "token">> ],
        [ id |-> "KB004",
          title |-> "Billing and Subscription FAQ",
          category |-> "billing",
          content |->
            "Billing Information:\n- Invoices are generated on the 1st of each month\n- Payment methods: Credit card, ACH, Wire transfer (Enterprise only)\n- Upgrade/downgrade takes effect immediately, prorated billing applies\n\nCommon questions:\n- View invoices: Settings > Billing > Invoice History\n- Update payment method: Settings > Billing > Payment Methods\n- Cancel subscription: Settings > Billing > Manage Plan > Cancel",
          keywords |-> <<"billing", "invoice", "payment", "subscription", "cancel", "upgrade">> ],
        [ id |-> "KB005",
          title |-> "Troubleshooting 500 Errors",
          category |-> "bug_report",
          content |->
            "If you're experiencing 500 Internal Server Errors:\n\n1. Check our status page for ongoing incidents\n2. Retry the request after a few seconds (may be temporary)\n3. If persistent, note:\n   - The exact endpoint being called\n   - Request body/parameters\n   - Time of occurrence\n   - Any error message returned\n\nCommon causes:\n- Large payload sizes (max 10MB)\n- Invalid JSON format\n- Missing required fields\n- Rate limit exceeded (returns 429, not 500)\n\nIf the issue persists, contact support with the details above.",
          keywords |-> <<"500", "error", "server", "bug", "crash", "internal">> ] >>]

----------------------------------------------------------------------------
(* tools/ticket_system.py: search_similar_tickets *)

Whitespace == {" ", "\t", "\n"}

\* set(text.split()): the maximal runs of characters free of whitespace
Split(text) ==
    LET runs == {p \in (1 .. Len(text)) \X (1 .. Len(text)) :
                    /\ p[1] <= p[2]
                    /\ \A k \in p[1] .. p[2] : text[k] \notin Whitespace
                    /\ p[1] = 1 \/ text[p[1] - 1] \in Whitespace
                    /\ p[2] = Len(text) \/ text[p[2] + 1] \in Whitespace}
    IN  {SubSeq(text, p[1], p[2]) : p \in runs}

\* text.lower() and set(text.lower().split()), worked out once per string
LowerChars == [s \in DOMAIN Chars |-> Lower(Chars[s])]
QueryWords == [s \in TicketQueries \cup KbQueries |-> Split(LowerChars[s])]

\* `needle in text.lower()`, worked out once for every string searched for
\* (query words, whole queries, article keywords) and every string searched
Needles ==
    UNION {QueryWords[s] : s \in DOMAIN QueryWords}
    \cup {LowerChars[s] : s \in DOMAIN QueryWords}
    \cup UNION {{Chars[a.keywords[k]] : k \in DOMAIN a.keywords} :
                  a \in {KNOWLEDGE_BASE.articles[i] : i \in DOMAIN KNOWLEDGE_BASE.articles}}
InLower == [text \in DOMAIN Chars |-> [needle \in Needles |-> Contains(needle, LowerChars[text])]]

\* the loop `for word in keywords: if len(word) > 3 and word in text.lower(): score += points`
RECURSIVE Tally(_, _, _)
Tally(keywords, text, points) ==
    IF keywords = {} THEN 0
    ELSE LET word == CHOOSE w \in keywords : TRUE
         IN  (IF Len(word) > 3 /\ InLower[text][word] THEN points ELSE 0)
             + Tally(keywords \ {word}, text, points)

\* TicketScore: the score one ticket collects in the loop body
TicketScore_title_once(ticket, keywords, category) ==
    LET title == ticket.title
        desc  == Get(ticket, "description", "")
    IN  Tally(keywords, title, 1)
        + Tally(keywords, desc, 1)
        + (IF Truthy(category) /\ ticket.category = category THEN 2 ELSE 0)

\* TicketScore: the word points alone, without the points of the category
TicketScore_words_only(ticket, keywords, category) ==
    LET title == ticket.title
        desc  == Get(ticket, "description", "")
    IN  Tally(keywords, title, 3)
        + Tally(keywords, desc, 1)

TicketScore(ticket, keywords, category) ==
    LET title == ticket.title
        desc  == Get(ticket, "description", "")
    IN  Tally(keywords, title, 3)
        + Tally(keywords, desc, 1)
        + (IF Truthy(category) /\ ticket.category = category THEN 2 ELSE 0)

\* SortByScore: list.sort(key=score, reverse=True), descending and stable
SortByScore_unsorted(scored) == scored

RECURSIVE SortByScore(_)
SortByScore(scored) ==
    IF scored = << >> THEN << >>
    ELSE LET n      == Len(scored)
             last   == scored[n]
             sorted == SortByScore(SubSeq(scored, 1, n - 1))
             ahead  == Cardinality({i \in 1 .. n - 1 : sorted[i].score >= last.score})
         IN  SubSeq(sorted, 1, ahead) \o <<last>> \o SubSeq(sorted, ahead + 1, n - 1)

\* the slice list[:limit]
Slice(list, limit) ==
    LET stop == IF limit >= 0 THEN limit ELSE Len(list) + limit
        n    == IF stop > Len(list) THEN Len(list) ELSE IF stop < 0 THEN 0 ELSE stop
    IN  SubSeq(list, 1, n)

\* TICKET_DATABASE.items() runs in insertion order: the seeded tickets, then
\* the created ones
SeededOrder == <<"TICKET-789", "TICKET-456", "TICKET-234", "TICKET-567">>
TicketOrder == SeededOrder \o [i \in 1 .. Len(returned) |-> returned[i].ticket_id]

\* Candidates: the tickets that pass the two `continue` filters, in
\* iteration order
Candidates_any_status(database, order, category) ==
    SelectSeq([i \in 1 .. Len(order) |-> database[order[i]]],
              LAMBDA ticket : ~(Truthy(category) /\ ticket.category # category))

Candidates(database, order, category) ==
    SelectSeq([i \in 1 .. Len(order) |-> database[order[i]]],
              LAMBDA ticket : /\ ticket.status = "resolved"
                              /\ ~(Truthy(category) /\ ticket.category # category))

search_similar_tickets(database, order, description, category, limit) ==
    LET keywords == QueryWords[description]
        candidates == Candidates(database, order, category)
        scored_tickets ==
            SelectSeq([i \in 1 .. Len(candidates) |->
                          [score  |-> TicketScore(candidates[i], keywords, category),
                           ticket |-> candidates[i]]],
                      LAMBDA st : st.score > 0)
        top_tickets == Slice(SortByScore(scored_tickets), limit)
        similar_tickets ==
            [i \in 1 .. Len(top_tickets) |->
                [ticket_id       |-> top_tickets[i].ticket.id,
                 title           |-> top_tickets[i].ticket.title,
                 category        |-> top_tickets[i].ticket.category,
                 description     |-> Get(top_tickets[i].ticket, "description", ""),
                 resolution      |-> Get(top_tickets[i].ticket, "resolution",
                                         "No resolution recorded"),
                 relevance_score |-> top_tickets[i].score]]
    IN  [status |-> "success",
         similar_tickets |-> similar_tickets,
         total_found |-> Len(similar_tickets),
         message |-> IF similar_tickets # << >>
                     THEN "Found " \o ToString(Len(similar_tickets))
                          \o " similar resolved ticket(s) that may help"
                     ELSE "No similar resolved tickets found. This may be a new issue type."]

Categories == {None, "integration"}
Limits == {0, 1, 3}

SearchSimilarTickets(c, description, category, limit) ==
    /\ c \in DOMAIN state
    /\ LET result == search_similar_tickets(db, TicketOrder, description, category, limit)
           ticket_ids == [i \in 1 .. Len(result.similar_tickets) |->
                             result.similar_tickets[i].ticket_id]
       IN  /\ state' = IF result.similar_tickets # << >>
                       THEN [state EXCEPT ![c] = Put(@, "last_similar_tickets", ticket_ids)]
                       ELSE state
           /\ ret' = [op |-> "search_similar_tickets", conv |-> c,
                      arg |-> [description |-> description, category |-> category,
                               limit |-> limit],
                      value |-> result]
    /\ UNCHANGED <<heap, db, call, returned, now, agents>>

----------------------------------------------------------------------------
(* tools/kb_tools.py: search_knowledge_base *)

\* the loop `for keyword in article["keywords"]:
\*     if keyword in query_lower or keyword in query_words: score += 5`
RECURSIVE KeywordTally(_, _)
KeywordTally(keywords, query) ==
    IF keywords = << >> THEN 0
    ELSE LET keyword == Chars[Head(keywords)]
         IN  (IF InLower[query][keyword] \/ keyword \in QueryWords[query] THEN 5 ELSE 0)
             + KeywordTally(Tail(keywords), query)

\* ArticleScore: the score one article collects in the loop body
ArticleScore_title_only(article, query) ==
    LET query_lower == LowerChars[query]
    IN  (IF InLower[article.title][query_lower] THEN 10 ELSE 0)
        + Tally(QueryWords[query], article.title, 2)

ArticleScore(article, query) ==
    LET query_lower == LowerChars[query]
        query_words == QueryWords[query]
    IN  (IF InLower[article.title][query_lower] THEN 10 ELSE 0)
        + KeywordTally(article.keywords, query)
        + (IF InLower[article.content][query_lower] THEN 3 ELSE 0)
        + Tally(query_words, article.content, 1)
        + Tally(query_words, article.title, 2)

search_knowledge_base(query, max_results) ==
    LET articles == KNOWLEDGE_BASE.articles
        scored_articles ==
            SelectSeq([i \in 1 .. Len(articles) |->
                          [score   |-> ArticleScore(articles[i], query),
                           article |-> articles[i]]],
                      LAMBDA sa : sa.score > 0)
        top == Slice(SortByScore(scored_articles), max_results)
        results ==
            [i \in 1 .. Len(top) |->
                [id              |-> top[i].article.id,
                 title           |-> top[i].article.title,
                 category        |-> top[i].article.category,
                 content         |-> top[i].article.content,
                 relevance_score |-> top[i].score]]
    IN  [status |-> "success", articles |-> results, total_found |-> Len(results)]

MaxResultsArgs == {0, 1, 3, 5}

SearchKnowledgeBase(c, query, max_results) ==
    /\ c \in DOMAIN state
    /\ state' = [state EXCEPT ![c] = record_kb_search(@, query)]
    /\ ret' = [op |-> "search_knowledge_base", conv |-> c,
               arg |-> [query |-> query, max_results |-> max_results],
               value |-> search_knowledge_base(query, max_results)]
    /\ UNCHANGED <<heap, db, call, returned, now, agents>>

----------------------------------------------------------------------------
(* sub_agents/technical_support_agent.py: the specialist's agent tree *)

google_search_agent == "google_search_agent"
kb_search_agent == "kb_search_agent"
ticket_search_agent == "ticket_search_agent"
diagnosis_synthesizer == "diagnosis_synthesizer"

parallel_info_gathering ==
    [name |-> "parallel_info_gathering", kind |-> "ParallelAgent",
     sub_agents |-> <<google_search_agent, kb_search_agent, ticket_search_agent>>]

technical_support_agent_flat ==
    [name |-> "specialist_agent", kind |-> "ParallelAgent",
     sub_agents |-> <<parallel_info_gathering.name, diagnosis_synthesizer>>]

technical_support_agent ==
    [name |-> "specialist_agent", kind |-> "SequentialAgent",
     sub_agents |-> <<parallel_info_gathering.name, diagnosis_synthesizer>>]

Workflows == {parallel_info_gathering, technical_support_agent}
LlmAgents == {google_search_agent, kb_search_agent, ticket_search_agent,
              diagnosis_synthesizer}
AllAgents == LlmAgents \cup {w.name : w \in Workflows}

\* a sub-agent may start once its workflow runs: at once under a
\* ParallelAgent, after all its predecessors under a SequentialAgent
MayStart(w, i) ==
    /\ agents[w.name] = "running"
    /\ agents[w.sub_agents[i]] = "idle"
    /\ w.kind = "SequentialAgent" =>
          \A j \in 1 .. i - 1 : agents[w.sub_agents[j]] = "done"

\* the orchestrator hands the turn to the specialist
StartTurn ==
    /\ agents[technical_support_agent.name] = "idle"
    /\ agents' = [agents EXCEPT ![technical_support_agent.name] = "running"]
    /\ UNCHANGED <<state, heap, db, call, returned, ret, now>>

StartSubAgent(w, i) ==
    /\ MayStart(w, i)
    /\ agents' = [agents EXCEPT ![w.sub_agents[i]] = "running"]
    /\ UNCHANGED <<state, heap, db, call, returned, ret, now>>

\* the model and its tool answer: the agent's output_key is written
Answer(a) ==
    /\ agents[a] = "running"
    /\ agents' = [agents EXCEPT ![a] = "done"]
    /\ UNCHANGED <<state, heap, db, call, returned, ret, now>>

\* the model or its tool raises
Fail(a) ==
    /\ agents[a] = "running"
    /\ agents' = [agents EXCEPT ![a] = "failed"]
    /\ UNCHANGED <<state, heap, db, call, returned, ret, now>>

\* the source never answers; nothing in the tree sets a timeout
Hang(a) ==
    /\ agents[a] = "running"
    /\ agents' = [agents EXCEPT ![a] = "hung"]
    /\ UNCHANGED <<state, heap, db, call, returned, ret, now>>

\* a workflow ends when every sub-agent has ended
Complete(w) ==
    /\ agents[w.name] = "running"
    /\ \A i \in DOMAIN w.sub_agents : agents[w.sub_agents[i]] = "done"
    /\ agents' = [agents EXCEPT ![w.name] = "done"]
    /\ UNCHANGED <<state, heap, db, call, returned, ret, now>>

\* an exception of a sub-agent is caught nowhere: it ends the workflow, and
\* the sub-agents still running are cancelled with it
Propagate(w) ==
    /\ agents[w.name] = "running"
    /\ \E i \in DOMAIN w.sub_agents : agents[w.sub_agents[i]] = "failed"
    /\ agents' = [a \in AllAgents |->
                    IF a = w.name THEN "failed"
                    ELSE IF /\ \E i \in DOMAIN w.sub_agents : w.sub_agents[i] = a
                            /\ agents[a] \in {"running", "hung"}
                         THEN "cancelled"
                         ELSE agents[a]]
    /\ UNCHANGED <<state, heap, db, call, returned, ret, now>>

----------------------------------------------------------------------------
(* session/state_helpers.py: update_state and the reads with a default *)

\* update dicts update_state is called with: fields of the session, a
\* last_activity of the caller's own, a key no session has, no key at all,
\* a conversation handed back to triage and an escalation withdrawn
UpdateArgs ==
    { [status |-> "in_progress"],
      [status |-> "resolved", turn_count |-> 1],
      [last_activity |-> -1, current_agent |-> "triage"],
      [note |-> "callback requested"],
      EmptyState,
      [triage_complete |-> FALSE, current_agent |-> "triage"],
      [escalation_requested |-> FALSE, status |-> "in_progress"] }

\* update_state stamping last_activity before it applies the updates
update_state_stamp_first(s, updates) ==
    LET stamped == Put(s, "last_activity", now)
    IN  [k \in DOMAIN stamped \cup DOMAIN updates |->
            IF k \in DOMAIN updates THEN updates[k] ELSE stamped[k]]

\* the session after update_state(tool_context, updates)
update_state(s, updates) ==
    LET applied == [k \in DOMAIN s \cup DOMAIN updates |->
                       IF k \in DOMAIN updates THEN updates[k] ELSE s[k]]
    IN  Put(applied, "last_activity", now)

UpdateState(c, updates) ==
    /\ c \in DOMAIN state
    /\ state' = [state EXCEPT ![c] = update_state(@, updates)]
    /\ ret' = [op |-> "update_state", conv |-> c, arg |-> updates, value |-> None]
    /\ UNCHANGED <<heap, db, call, returned, now, agents>>

get_conversation_status(s) == Get(s, "status", "new")

GetStateValue(c, key, default) ==
    /\ c \in DOMAIN state
    /\ ret' = [ op |-> "get_state_value", conv |-> c,
                arg |-> [key |-> key, default |-> default],
                value |-> Get(state[c], key, default) ]
    /\ UNCHANGED <<state, heap, db, call, returned, now, agents>>

GetConversationStatus(c) ==
    /\ c \in DOMAIN state
    /\ ret' = [ op |-> "get_conversation_status", conv |-> c, arg |-> None,
                value |-> get_conversation_status(state[c]) ]
    /\ UNCHANGED <<state, heap, db, call, returned, now, agents>>

GetTurnCount(c) ==
    /\ c \in DOMAIN state
    /\ ret' = [ op |-> "get_turn_count", conv |-> c, arg |-> None,
                value |-> get_turn_count(state[c]) ]
    /\ UNCHANGED <<state, heap, db, call, returned, now, agents>>

----------------------------------------------------------------------------
(* session/state_schema.py: the SessionState dataclass *)

\* SessionState.__dataclass_fields__
SessionStateFields ==
    { "conversation_id", "user_id", "started_at", "last_activity", "status",
      "current_agent", "turn_count", "issue", "attempted_solutions",
      "solution_attempts_count", "escalation_count", "escalation_requested",
      "ticket_id", "triage_complete", "specialist_engaged",
      "clarifying_questions_asked", "last_kb_search", "last_similar_tickets",
      "system_status_checked", "user_context_loaded", "user_name", "user_plan",
      "user_frustration_level" }

\* the default of every field; the two default_factory lists are empty
SessionStateDefaults ==
    [ conversation_id |-> "",
      user_id |-> "",
      started_at |-> "",
      last_activity |-> "",
      status |-> "new",
      current_agent |-> "orchestrator",
      turn_count |-> 0,
      issue |-> None,
      attempted_solutions |-> << >>,
      solution_attempts_count |-> 0,
      escalation_count |-> 0,
      escalation_requested |-> FALSE,
      ticket_id |-> None,
      triage_complete |-> FALSE,
      specialist_engaged |-> FALSE,
      clarifying_questions_asked |-> 0,
      last_kb_search |-> None,
      last_similar_tickets |-> << >>,
      system_status_checked |-> FALSE,
      user_context_loaded |-> FALSE,
      user_name |-> None,
      user_plan |-> None,
      user_frustration_level |-> "normal" ]

\* SessionState(**kwargs): an instance of the dataclass, which is equal to
\* another instance exactly when all fields are equal
SessionState(kwargs) ==
    [ class |-> "SessionState",
      fields |-> [f \in SessionStateFields |->
                     IF f \in DOMAIN kwargs THEN kwargs[f] ELSE SessionStateDefaults[f]] ]

\* dataclasses.asdict on a dict or on an instance of a dataclass: a new
\* dict of the keys, or of the instance's fields
AsDict(v) ==
    IF "class" \in DOMAIN v
    THEN [k \in DOMAIN v.fields |-> v.fields[k]]
    ELSE [k \in DOMAIN v |-> v[k]]

\* asdict that leaves the lists it meets empty
to_dict_without_lists(s) ==
    [ f \in SessionStateFields |->
        IF f \in {"attempted_solutions", "last_similar_tickets"}
        THEN << >>
        ELSE IF f = "issue"
             THEN IF IsNone(s.fields[f]) THEN None ELSE AsDict(s.fields[f])
             ELSE s.fields[f] ]

\* asdict(self): every field by name, lists and dicts rebuilt item by item
to_dict(s) ==
    [ f \in SessionStateFields |->
        IF f = "attempted_solutions"
        THEN [i \in 1 .. Len(s.fields[f]) |-> AsDict(s.fields[f][i])]
        ELSE IF f = "last_similar_tickets"
             THEN [i \in 1 .. Len(s.fields[f]) |-> s.fields[f][i]]
             ELSE IF f = "issue"
                  THEN IF IsNone(s.fields[f]) THEN None ELSE AsDict(s.fields[f])
                  ELSE s.fields[f] ]

\* cls(**{k: v for k, v in data.items() if k in cls.__dataclass_fields__})
from_dict(data) ==
    SessionState([k \in DOMAIN data \cap SessionStateFields |-> data[k]])

\* the attempt dicts of a session that has recorded n attempts
SampleAttempts(n) ==
    [ i \in 1 .. n |->
        [ solution |-> "attempt " \o ToString(i),
          agent |-> "specialist",
          result |-> IF i = n THEN "pending" ELSE "not_helpful",
          user_feedback |-> None,
          timestamp |-> "2024-12-20T10:00:00Z" ] ]

\* a SessionState as a conversation leaves it: the status, the turns counted,
\* the attempts recorded and whether the issue was classified
SampleState(status, turns, attempts, classified) ==
    SessionState(
        [ conversation_id |-> "c1",
          user_id |-> "user_123",
          started_at |-> "2024-12-20T10:00:00Z",
          status |-> status,
          turn_count |-> turns,
          issue |-> IF classified
                    THEN [ category |-> "billing", priority |-> "critical",
                           confidence |-> 7, description_summary |-> "Charged twice",
                           error_type |-> None, keywords |-> <<"charged", "twice">>,
                           classified_at |-> "2024-12-20T10:00:00Z" ]
                    ELSE None,
          attempted_solutions |-> SampleAttempts(attempts),
          solution_attempts_count |-> attempts,
          last_similar_tickets |-> IF classified THEN <<"TICKET-234">> ELSE << >> ])

\* the stored snapshot of a state with fields removed and foreign keys added,
\* as a storage backend may hand it back
Stored(s, kept, extra) ==
    [ k \in (DOMAIN to_dict(s) \cap kept) \cup extra |->
        IF k \in extra THEN "written by another version" ELSE to_dict(s)[k] ]

ToDict(s) ==
    /\ ret' = [op |-> "to_dict", conv |-> "none", arg |-> s, value |-> to_dict(s)]
    /\ UNCHANGED <<state, heap, db, call, returned, now, agents>>

FromDict(data) ==
    /\ ret' = [op |-> "from_dict", conv |-> "none", arg |-> data, value |-> from_dict(data)]
    /\ UNCHANGED <<state, heap, db, call, returned, now, agents>>

\* SessionState.from_dict(s.to_dict())
RoundTrip(s) ==
    /\ ret' = [ op |-> "round_trip", conv |-> "none", arg |-> s,
                value |-> from_dict(to_dict(s)) ]
    /\ UNCHANGED <<state, heap, db, call, returned, now, agents>>

----------------------------------------------------------------------------
(* The two lookups of one technical-support turn, run at once on one       *)
(* session: each advances one statement group at a time and the other runs *)
(* in between                                                              *)

\* what the two lookup agents search for in one turn
GatherQueries == {"webhook signature error", "zzz"}
GatherDescriptions == {"webhook endpoint not receiving events", "nothing matches"}

\* parallel_info_gathering starts its sub-agents: kb_search_agent calls
\* search_knowledge_base(query) and ticket_search_agent calls
\* search_similar_tickets(description)
Gather(c, query, description) ==
    /\ c \in DOMAIN state
    /\ call[c] = Idle
    /\ call' = [call EXCEPT ![c] =
           [pc |-> "gathering",
            kb |-> [pc |-> "called", query |-> query],
            tickets |-> [pc |-> "called", description |-> description]]]
    /\ UNCHANGED <<state, heap, db, returned, ret, now, agents>>

Gathering(c) == call[c].pc = "gathering"

\* state_helpers.py 339: tool_context.state["last_kb_search"] = query, kept
\* for the queries that find an article only
KbRecordQuery_when_found(c) ==
    /\ Gathering(c)
    /\ call[c].kb.pc = "called"
    /\ state' = IF search_knowledge_base(call[c].kb.query, 3).articles # << >>
                THEN [state EXCEPT ![c] = Put(@, "last_kb_search", call[c].kb.query)]
                ELSE state
    /\ call' = [call EXCEPT ![c].kb.pc = "stamp"]
    /\ UNCHANGED <<heap, db, returned, ret, now, agents>>

\* state_helpers.py 339: tool_context.state["last_kb_search"] = query
KbRecordQuery(c) ==
    /\ Gathering(c)
    /\ call[c].kb.pc = "called"
    /\ state' = [state EXCEPT ![c] = Put(@, "last_kb_search", call[c].kb.query)]
    /\ call' = [call EXCEPT ![c].kb.pc = "stamp"]
    /\ UNCHANGED <<heap, db, returned, ret, now, agents>>

\* state_helpers.py 340: tool_context.state["last_activity"] = now
KbStamp(c) ==
    /\ Gathering(c)
    /\ call[c].kb.pc = "stamp"
    /\ state' = [state EXCEPT ![c] = Put(@, "last_activity", now)]
    /\ call' = [call EXCEPT ![c].kb.pc = "score"]
    /\ UNCHANGED <<heap, db, returned, ret, now, agents>>

\* kb_tools.py 142-193: the articles are scored and the result is returned
KbReturn(c) ==
    /\ Gathering(c)
    /\ call[c].kb.pc = "score"
    /\ ret' = [op |-> "search_knowledge_base", conv |-> c,
               arg |-> [query |-> call[c].kb.query, max_results |-> 3],
               value |-> search_knowledge_base(call[c].kb.query, 3)]
    /\ call' = [call EXCEPT ![c].kb.pc = "done"]
    /\ UNCHANGED <<state, heap, db, returned, now, agents>>

\* ticket_system.py 261-310: the tickets are scored and the result is built
TsScore(c) ==
    /\ Gathering(c)
    /\ call[c].tickets.pc = "called"
    /\ call' = [call EXCEPT ![c].tickets =
           [pc |-> "record", description |-> call[c].tickets.description,
            result |-> search_similar_tickets(db, TicketOrder,
                                              call[c].tickets.description, None, 3)]]
    /\ UNCHANGED <<state, heap, db, returned, ret, now, agents>>

\* ticket_system.py 317-326: the ids are recorded when there are any and the
\* result is returned
TsRecord(c) ==
    /\ Gathering(c)
    /\ call[c].tickets.pc = "record"
    /\ LET result == call[c].tickets.result
           ticket_ids == [i \in 1 .. Len(result.similar_tickets) |->
                             result.similar_tickets[i].ticket_id]
       IN  /\ state' = IF result.similar_tickets # << >>
                       THEN [state EXCEPT ![c] = Put(@, "last_similar_tickets", ticket_ids)]
                       ELSE state
           /\ ret' = [op |-> "search_similar_tickets", conv |-> c,
                      arg |-> [description |-> call[c].tickets.description,
                               category |-> None, limit |-> 3],
                      value |-> result]
    /\ call' = [call EXCEPT ![c].tickets.pc = "done"]
    /\ UNCHANGED <<heap, db, returned, now, agents>>

\* both lookups have returned
Gathered(c) ==
    Gathering(c) /\ call[c].kb.pc = "done" /\ call[c].tickets.pc = "done"

\* parallel_info_gathering ends when both sub-agents have
EndGather(c) ==
    /\ Gathered(c)
    /\ call' = [call EXCEPT ![c] = Idle]
    /\ UNCHANGED <<state, heap, db, returned, ret, now, agents>>

----------------------------------------------------------------------------
(* Specifications *)

Init ==
    /\ state = << >>
    /\ heap = [r \in {InitialSolutions} |-> << >>]
    /\ db = TICKET_DATABASE
    /\ call = [c \in Conv |-> Idle]
    /\ returned = << >>
    /\ ret = NoReturn
    /\ now = 0
    /\ agents = [a \in AllAgents |-> "idle"]

\* the conversation whose status and escalation helpers are exercised
Observed == "c1"

\* Ticket life cycle: conversations start and create tickets one whole call
\* after another; the observed conversation also sets its status and records
\* escalations directly.
Next ==
    \/ \E c \in Conv, u \in UserIds : GetInitialState(c, u)
    \/ \E c \in Conv, a \in CreateTicketArgs : CreateTicket(c, a)
    \/ \E s \in Statuses : SetConversationStatus(Observed, s)
    \/ \E t \in {None, "TICKET-789"} : SetEscalationRequested(Observed, t)

Spec == Init /\ [][Next]_vars

\* Session bookkeeping of two conversations: solution attempts and search
\* breadcrumbs.
SessionNext ==
    \/ \E c \in Conv, u \in UserIds : GetInitialState(c, u)
    \/ \E c \in Conv, r \in Results :
          AddAttemptedSolution(c, "restart the service", "specialist", r, None)
    \/ \E c \in Conv, r \in Results \ {"pending"}, f \in {None, "did not work"} :
          UpdateSolutionResult(c, r, f)
    \/ \E c \in Conv, t \in {<<"TICKET-456">>} : RecordSimilarTickets(c, t)

SessionSpec == Init /\ [][SessionNext]_vars

\* User context: conversations start for a user and look users up.
UserNext ==
    \/ \E c \in Conv, u \in UserIds : GetInitialState(c, u)
    \/ \E c \in Conv, u \in LookupArgs : GetUserContext(c, u)

UserSpec == Init /\ [][UserNext]_vars

\* Escalation policy of one conversation: everything should_escalate reads
\* is driven by the helpers that write it, and the decision is taken in
\* every state.
PolicyNext ==
    \/ \E u \in UserIds : GetInitialState(Observed, u)
    \/ \E r \in Results :
          AddAttemptedSolution(Observed, "restart the service", "specialist", r, None)
    \/ \E r \in Results \ {"pending"}, f \in {None, "did not work"} :
          UpdateSolutionResult(Observed, r, f)
    \/ \E t \in {None, "TICKET-789"} : SetEscalationRequested(Observed, t)
    \/ \E m \in Messages : DetectFrustration(Observed, m)
    \/ \E m \in MaxAttemptsArgs : ShouldEscalate(Observed, m)

PolicySpec == Init /\ [][PolicyNext]_vars

\* create_ticket calls of different conversations run at once, their
\* statement groups interleaved.
ConcNext ==
    \/ \E c \in Conv, u \in UserIds : GetInitialState(c, u)
    \/ \E c \in Conv, a \in CreateTicketArgs : CtGenerate(c, a)
    \/ \E c \in Conv : CtReroll(c)
    \/ \E c \in Conv : CtUnique(c)
    \/ \E c \in Conv : CtStore(c)
    \/ \E c \in Conv : CtRecord(c)

ConcSpec == Init /\ [][ConcNext]_vars

\* a message detect_frustration rates angry
AngryMessage == <<"W", "H", "Y", " ", "I", "S", " ", "I", "T", " ", "D", "O", "W", "N">>

\* One session whose helpers are called while the clock advances.
ClockNext ==
    \/ GetInitialState(Observed, "user_123")
    \/ Tick
    \/ IncrementTurnCount(Observed)
    \/ IncrementClarifyingQuestions(Observed)
    \/ DetectFrustration(Observed, AngryMessage)
    \/ MarkTriageComplete(Observed)
    \/ MarkSpecialistEngaged(Observed)
    \/ RecordSimilarTickets(Observed, <<"TICKET-456">>)
    \/ MarkSystemStatusChecked(Observed)
    \/ RecordKbSearch(Observed, "webhook")
    \/ SetCurrentAgent(Observed, "triage")

ClockSpec == Init /\ [][ClockNext]_vars

\* One session, created with or without get_initial_state, whose counters
\* are incremented between calls of other helpers and tools.
CounterNext ==
    \/ GetInitialState(Observed, "user_123")
    \/ NewSession(Observed)
    \/ IncrementTurnCount(Observed)
    \/ IncrementClarifyingQuestions(Observed)
    \/ DetectFrustration(Observed, AngryMessage)
    \/ MarkTriageComplete(Observed)
    \/ RecordKbSearch(Observed, "webhook")
    \/ SetCurrentAgent(Observed, "triage")
    \/ SetEscalationRequested(Observed, None)
    \/ GetUserContext(Observed, "user_456")

CounterSpec == Init /\ [][CounterNext]_vars

----------------------------------------------------------------------------
(* Properties *)

\* a session with its attempted_solutions list in place of the reference to it
Deref(s, h) ==
    [k \in DOMAIN s |-> IF k = "attempted_solutions" THEN h[s[k]] ELSE s[k]]

\* the conversations in which create_ticket has returned
Ticketed == {returned[i].conv : i \in 1 .. Len(returned)}

\* position of a status in the order new, in_progress/awaiting_user, resolved, escalated
StatusRank(status) ==
    CASE status = "new" -> 0
      [] status \in {"in_progress", "awaiting_user"} -> 1
      [] status = "resolved" -> 2
      [] status = "escalated" -> 3

\* C1: in every reachable state of every conversation, solution_attempts_count
\* equals the length of attempted_solutions.
C1_CountEqualsLength ==
    \A c \in DOMAIN state :
        state[c].solution_attempts_count = Len(heap[state[c].attempted_solutions])

\* C2: should_escalate(state, max_attempts) returns true exactly when the
\* number of attempts with result "not_helpful" is at least max_attempts, or
\* escalation_requested is true, or user_frustration_level is "angry".
C2_ShouldEscalateIff ==
    ret.op = "should_escalate" =>
        LET s == state[ret.conv]
            solutions == heap[s.attempted_solutions]
            failed == Cardinality({i \in 1 .. Len(solutions) :
                                      solutions[i].result = "not_helpful"})
        IN  ret.value = TRUE <=>
                \/ failed >= ret.arg
                \/ s.escalation_requested = TRUE
                \/ s.user_frustration_level = "angry"

\* C2 witness: with max_attempts = 2, two not_helpful attempts, no escalation
\* request and a normal frustration level, should_escalate has returned true.
C2_Witness ==
    /\ ret.op = "should_escalate"
    /\ ret.arg = 2
    /\ ret.value = TRUE
    /\ Len(heap[state[ret.conv].attempted_solutions]) = 2
    /\ \A i \in 1 .. 2 : heap[state[ret.conv].attempted_solutions][i].result = "not_helpful"
    /\ state[ret.conv].escalation_requested = FALSE
    /\ state[ret.conv].user_frustration_level = "normal"

\* C3: when create_ticket calls run one after another, each call returns an id
\* that was not a key of the ticket database before the call, the tickets
\* already stored are left as they were, and all returned ids are distinct.
C3_FreshTicketIds ==
    [][ Len(returned') > Len(returned) =>
            /\ ret'.op = "create_ticket"
            /\ ret'.value.ticket_id \notin DOMAIN db
            /\ ret'.value.ticket_id \in DOMAIN db'
            /\ \A k \in DOMAIN db : k \in DOMAIN db' /\ db'[k] = db[k]
            /\ \A i, j \in 1 .. Len(returned') :
                  i # j => returned'[i].ticket_id # returned'[j].ticket_id ]_vars

\* C3 witness: two create_ticket calls have returned, with different ids, and
\* both tickets are stored beside the four seeded ones.
C3_Witness ==
    /\ Len(returned) = 2
    /\ returned[1].ticket_id # returned[2].ticket_id
    /\ {returned[1].ticket_id, returned[2].ticket_id} \subseteq DOMAIN db
    /\ DOMAIN TICKET_DATABASE \subseteq DOMAIN db

\* C4: when create_ticket calls of different conversations interleave, no two
\* calls return the same ticket id, no stored ticket is replaced, and the
\* ticket database only gains entries.
C4_TicketIdsSerialized ==
    [][ /\ \A k \in DOMAIN db : k \in DOMAIN db' /\ db'[k] = db[k]
        /\ \A i, j \in 1 .. Len(returned') :
              i # j => returned'[i].ticket_id # returned'[j].ticket_id ]_vars

\* C5: after create_ticket has returned id T, the session has
\* escalation_requested = true, status = "escalated", ticket_id = T and an
\* escalation_count one greater than before the call, and the stored ticket's
\* assigned_team is the routing table's team for the ticket's category.
C5_CreateTicketRecordsEscalation ==
    [][ Len(returned') > Len(returned) =>
            LET c == ret'.conv
                T == ret'.value.ticket_id
            IN  /\ ret'.value.status = "success"
                /\ state'[c].escalation_requested = TRUE
                /\ state'[c].status = "escalated"
                /\ state'[c].ticket_id = T
                /\ state'[c].escalation_count = state[c].escalation_count + 1
                /\ db'[T].assigned_team =
                      (IF db'[T].category \in DOMAIN TEAM_ASSIGNMENTS
                       THEN TEAM_ASSIGNMENTS[db'[T].category]
                       ELSE "general_support") ]_vars

\* C5 witness: create_ticket has just returned in a conversation that had
\* already recorded an escalation, so its escalation_count is now 2 or more.
C5_Witness ==
    /\ ret.op = "create_ticket"
    /\ state[ret.conv].escalation_count >= 2
    /\ state[ret.conv].ticket_id = ret.value.ticket_id
    /\ db[ret.value.ticket_id].assigned_team = "general_support"

\* C6: in a conversation in which create_ticket has run, escalation_requested
\* implies that status is "escalated" and ticket_id is not null.
C6_EscalationImpliesEscalated ==
    \A c \in DOMAIN state :
        (c \in Ticketed /\ state[c].escalation_requested = TRUE) =>
            (state[c].status = "escalated" /\ state[c].ticket_id # None)

\* C7: status never moves backward in the order new, in_progress/awaiting_user,
\* resolved, escalated, and once it is "escalated" it never changes.
C7_StatusForwardOnly ==
    [][ \A c \in DOMAIN state :
            \/ state'[c].status = state[c].status
            \/ /\ state[c].status # "escalated"
               /\ StatusRank(state'[c].status) >= StatusRank(state[c].status) ]_vars

\* C8: once create_ticket has set a conversation's ticket_id, no later
\* operation changes it.
C8_TicketIdAssignedOnce ==
    [][ \A c \in DOMAIN state :
            c \in Ticketed => state'[c].ticket_id = state[c].ticket_id ]_vars

\* C9: no operation changes the user_id or the conversation_id a conversation
\* was started with.
C9_IdentityImmutable ==
    [][ \A c \in DOMAIN state :
            /\ state'[c].user_id = state[c].user_id
            /\ state'[c].conversation_id = state[c].conversation_id ]_vars

\* C10: an operation that changes one conversation's state leaves every field
\* of every other conversation unchanged, the elements of its lists included.
C10_ConversationsIsolated ==
    [][ \A c, d \in DOMAIN state :
            (c # d /\ Deref(state'[c], heap') # Deref(state[c], heap)) =>
                Deref(state'[d], heap') = Deref(state[d], heap) ]_vars

\* One turn handed to the technical specialist: the three lookups and the
\* synthesizer run as the agent tree lets them; each agent answers, raises
\* or never answers.
TurnNext ==
    \/ StartTurn
    \/ \E w \in Workflows : \E i \in DOMAIN w.sub_agents : StartSubAgent(w, i)
    \/ \E a \in LlmAgents : Answer(a)
    \/ \E a \in LlmAgents : Fail(a)
    \/ \E a \in LlmAgents : Hang(a)
    \/ \E w \in Workflows : Complete(w)
    \/ \E w \in Workflows : Propagate(w)

\* every agent that can take a step is scheduled: the event loop runs each
\* task that is ready
TurnSpec == Init /\ [][TurnNext]_vars /\ WF_vars(TurnNext)

\* One conversation that creates tickets and searches the resolved ones.
SearchNext ==
    \/ GetInitialState(Observed, "user_123")
    \/ \E a \in {x \in CreateTicketArgs : x.category = "integration"} :
          CreateTicket(Observed, a)
    \/ \E q \in TicketQueries, k \in Categories, l \in Limits :
          SearchSimilarTickets(Observed, q, k, l)

SearchSpec == Init /\ [][SearchNext]_vars

\* One session, created with or without get_initial_state, that searches the
\* knowledge base while the clock advances.
KbNext ==
    \/ \E u \in UserIds : GetInitialState(Observed, u)
    \/ NewSession(Observed)
    \/ Tick
    \/ \E q \in KbQueries, m \in MaxResultsArgs : SearchKnowledgeBase(Observed, q, m)

KbSpec == Init /\ [][KbNext]_vars

----------------------------------------------------------------------------
(* Claims C11..C20 *)

\* the sessions a step has changed
Mutated == {c \in DOMAIN state' : c \notin DOMAIN state \/ state'[c] # state[c]}

\* C11: every operation that changes a session's state also stamps its
\* last_activity with the time of the call.
C11_MutationStampsLastActivity ==
    [][\A c \in Mutated : /\ "last_activity" \in DOMAIN state'[c]
                          /\ state'[c]["last_activity"] = now']_vars

Lookups == {parallel_info_gathering.sub_agents[i] : i \in DOMAIN parallel_info_gathering.sub_agents}

\* C13: the synthesizer of a technical-support turn never starts before all
\* three lookups of the same turn have finished.
C13_SynthesisAfterAllLookups ==
    agents[diagnosis_synthesizer] # "idle" =>
        \A a \in Lookups : agents[a] = "done"

\* the synthesizer runs after the three lookups answered
C13_Witness ==
    /\ agents[diagnosis_synthesizer] = "running"
    /\ \A a \in Lookups : agents[a] = "done"

\* C14: whatever subset of the three lookups fails or never answers, the
\* join completes and the synthesizer eventually runs.
C14_SynthesisEventuallyRuns ==
    (agents[parallel_info_gathering.name] = "running")
        ~> (agents[diagnosis_synthesizer] \in {"running", "done"})

\* what the last search_similar_tickets call returned, and its arguments
Searched == ret.op = "search_similar_tickets"
Found == ret.value.similar_tickets
FoundIds == [i \in 1 .. Len(Found) |-> Found[i].ticket_id]

\* C15: after every search_similar_tickets call the session's
\* last_similar_tickets is the list of ticket ids that call returned, in rank
\* order; a later search overwrites the breadcrumb.
C15_BreadcrumbIsLastResult ==
    Searched =>
        /\ ret.value.status = "success"
        /\ state[ret.conv]["last_similar_tickets"] = FoundIds

\* C16: every ticket a search returns is resolved and, when a category was
\* given, of exactly that category; a ticket made by create_ticket is never
\* returned.
C16_OnlyResolvedOfCategory ==
    Searched =>
        \A i \in 1 .. Len(Found) :
            /\ Found[i].ticket_id \in DOMAIN db
            /\ db[Found[i].ticket_id].status = "resolved"
            /\ Truthy(ret.arg.category) =>
                  /\ Found[i].category = ret.arg.category
                  /\ db[Found[i].ticket_id].category = ret.arg.category
            /\ \A k \in 1 .. Len(returned) : returned[k].ticket_id # Found[i].ticket_id

\* a categorised search returned tickets while an open ticket of that
\* category, with a matching title, was in the database
C16_Witness ==
    /\ Searched
    /\ ret.arg.category = "integration"
    /\ ret.arg.description = "webhook WEBHOOK events"
    /\ Len(Found) = 2
    /\ \E k \in 1 .. Len(returned) :
          /\ db[returned[k].ticket_id].category = "integration"
          /\ db[returned[k].ticket_id].title = "Webhook signature verification failing"

\* the distinct words of the lowercased description longer than 3 characters
LongWords(description) == {w \in Split(Lower(Chars[description])) : Len(w) > 3}

\* +3 per such word in the title, +1 per such word in the description, +2
\* when the category asked for is the ticket's
ExpectedTicketScore(ticket, description, category) ==
    3 * Cardinality({w \in LongWords(description) : Contains(w, Lower(Chars[ticket.title]))})
    + Cardinality({w \in LongWords(description) : Contains(w, Lower(Chars[ticket.description]))})
    + (IF Truthy(category) /\ category = ticket.category THEN 2 ELSE 0)

PositionOf(ticket_id) == CHOOSE i \in 1 .. Len(TicketOrder) : TicketOrder[i] = ticket_id

\* C17: each returned ticket carries the score of the +3/+1/+2 rule as
\* relevance_score and that score is positive; the list is in non-increasing
\* score order with ties in database order and has at most limit entries; the
\* seeded query "webhook endpoint not receiving events" without category and
\* with limit 3 returns TICKET-456.
C17_TicketScoring ==
    Searched =>
        /\ \A i \in 1 .. Len(Found) :
              /\ Found[i].relevance_score =
                    ExpectedTicketScore(db[Found[i].ticket_id], ret.arg.description,
                                        ret.arg.category)
              /\ Found[i].relevance_score > 0
        /\ \A i, j \in 1 .. Len(Found) :
              i < j =>
                  /\ Found[i].relevance_score >= Found[j].relevance_score
                  /\ Found[i].relevance_score = Found[j].relevance_score =>
                        PositionOf(Found[i].ticket_id) < PositionOf(Found[j].ticket_id)
        /\ Len(Found) <= ret.arg.limit
        /\ ret.value.total_found = Len(Found)
        /\ (/\ ret.arg.description = "webhook endpoint not receiving events"
            /\ ret.arg.category = None
            /\ ret.arg.limit = 3) => FoundIds = <<"TICKET-456">>

\* the seeded query has been run and TICKET-456 came back with score 10
C17_Witness ==
    /\ Searched
    /\ ret.arg = [description |-> "webhook endpoint not receiving events",
                  category |-> None, limit |-> 3]
    /\ Len(Found) = 1
    /\ Found[1].ticket_id = "TICKET-456"
    /\ Found[1].relevance_score = 10

\* what the last search_knowledge_base call returned
KbSearched == ret.op = "search_knowledge_base"
Articles == ret.value.articles

\* where an article stands in the corpus
CorpusIndex(id) ==
    CHOOSE i \in DOMAIN KNOWLEDGE_BASE.articles : KNOWLEDGE_BASE.articles[i].id = id

\* +10 whole query in the title, +5 per keyword that is a substring of the
\* query or one of its words, +3 whole query in the content, and per distinct
\* query word longer than 3 characters +1 in the content and +2 in the title
ExpectedArticleScore(article, query) ==
    LET q       == Lower(Chars[query])
        words   == {w \in Split(q) : Len(w) > 3}
        title   == Lower(Chars[article.title])
        content == Lower(Chars[article.content])
    IN  (IF Contains(q, title) THEN 10 ELSE 0)
        + 5 * Cardinality({k \in DOMAIN article.keywords :
                              \/ Contains(Chars[article.keywords[k]], q)
                              \/ Chars[article.keywords[k]] \in Split(q)})
        + (IF Contains(q, content) THEN 3 ELSE 0)
        + Cardinality({w \in words : Contains(w, content)})
        + 2 * Cardinality({w \in words : Contains(w, title)})

\* C18: the relevance_score of every returned article is the score of the
\* +10/+5/+3/+1/+2 rule; the query "webhook signature error" with max_results
\* 3 ranks KB002 first with a positive score.
C18_ArticleScoring ==
    KbSearched =>
        /\ \A i \in 1 .. Len(Articles) :
              Articles[i].relevance_score =
                  ExpectedArticleScore(KNOWLEDGE_BASE.articles[CorpusIndex(Articles[i].id)],
                                       ret.arg.query)
        /\ (ret.arg.query = "webhook signature error" /\ ret.arg.max_results = 3) =>
              /\ Len(Articles) >= 1
              /\ Articles[1].id = "KB002"
              /\ Articles[1].relevance_score > 0

\* the seeded query has been run: KB002 (15) before KB005 (8) and KB003 (1)
C18_Witness ==
    /\ KbSearched
    /\ ret.arg = [query |-> "webhook signature error", max_results |-> 3]
    /\ [i \in 1 .. Len(Articles) |-> <<Articles[i].id, Articles[i].relevance_score>>]
          = << <<"KB002", 15>>, <<"KB005", 8>>, <<"KB003", 1>> >>

\* C19: a knowledge-base result holds only articles of positive score, in
\* non-increasing relevance_score order with ties in corpus order, at most
\* max_results of them, and total_found is the length of the list.
C19_ArticleList ==
    KbSearched =>
        /\ ret.value.status = "success"
        /\ \A i \in 1 .. Len(Articles) : Articles[i].relevance_score > 0
        /\ \A i, j \in 1 .. Len(Articles) :
              i < j =>
                  /\ Articles[i].relevance_score >= Articles[j].relevance_score
                  /\ Articles[i].relevance_score = Articles[j].relevance_score =>
                        CorpusIndex(Articles[i].id) < CorpusIndex(Articles[j].id)
        /\ Len(Articles) <= ret.arg.max_results
        /\ ret.value.total_found = Len(Articles)

\* a search cut to three articles, two of them tied
C19_Witness ==
    /\ KbSearched
    /\ ret.arg = [query |-> "rate limit", max_results |-> 3]
    /\ [i \in 1 .. Len(Articles) |-> <<Articles[i].id, Articles[i].relevance_score>>]
          = << <<"KB003", 5>>, <<"KB005", 5>>, <<"KB002", 1>> >>
    /\ ret.value.total_found = 3

\* what the last detect_frustration call was given
Detected == ret.op = "detect_frustration"
HasTerm(lexicon, message) ==
    \E k \in DOMAIN lexicon : Contains(lexicon[k], Lower(message))
UpperCase == {"A", "B", "C", "D", "E", "F", "G", "H", "I", "J", "K", "L", "M",
              "N", "O", "P", "Q", "R", "S", "T", "U", "V", "W", "X", "Y", "Z"}
Capitals(message) == Cardinality({i \in DOMAIN message : message[i] \in UpperCase})

\* C20: detect_frustration returns "angry" when the lower-cased message has an
\* angry term, or when strictly more than half its characters are uppercase
\* and it is longer than 10 characters; otherwise "frustrated" when it has a
\* frustrated term; otherwise "normal".  Half the characters exactly, or 10
\* characters exactly, do not trigger the override.
C20_FrustrationRule ==
    Detected =>
        LET message  == ret.arg
            override == 2 * Capitals(message) > Len(message) /\ Len(message) > 10
        IN  /\ ret.value = "angry" <=> (HasTerm(angry_words, message) \/ override)
            /\ ret.value = "frustrated" <=>
                  /\ ~(HasTerm(angry_words, message) \/ override)
                  /\ HasTerm(frustrated_words, message)
            /\ ret.value \in {"angry", "frustrated", "normal"}
            /\ (2 * Capitals(message) = Len(message) \/ Len(message) = 10) =>
                  (ret.value = "angry" <=> HasTerm(angry_words, message))

\* a message of exactly 10 characters, 7 of them capitals, was rated normal
C20_Witness ==
    /\ Detected
    /\ ret.arg = <<"A", "B", "C", "D", "E", "F", "G", "h", "i", "j">>
    /\ ret.value = "normal"

----------------------------------------------------------------------------
(* Claims C21..C30 *)

CalmMessage == <<"t", "h", "a", "n", "k", "s", ",", " ", "t", "h", "a", "t", " ", "w", "o", "r", "k", "e", "d">>

FrustratedMessage == <<"i", "t", " ", "i", "s", " ", "s", "t", "i", "l", "l", " ", "b", "r", "o", "k", "e", "n">>

\* the create_ticket call that supplies neither solutions nor a user id
PlainTicketArgs == {a \in CreateTicketArgs : a.user_id = None}

\* Frustration of one conversation: messages of every mood are rated in any
\* order, and the escalation decision, the hand-off payload and new tickets
\* read the level in between.
MoodNext ==
    \/ GetInitialState(Observed, "user_123")
    \/ \E m \in {CalmMessage, FrustratedMessage, AngryMessage} : DetectFrustration(Observed, m)
    \/ ShouldEscalate(Observed, 2)
    \/ GetEscalationContext(Observed)
    \/ \E a \in PlainTicketArgs : CreateTicket(Observed, a)

MoodSpec == Init /\ [][MoodNext]_vars

\* the level stored in the session of the conversation `ret` belongs to
StoredLevel == Get(state[ret.conv], "user_frustration_level", "normal")

\* C21: after detect_frustration the stored level is the level it returned,
\* whatever was stored before; should_escalate's frustration trigger, the
\* ticket create_ticket stores and get_escalation_context's payload carry
\* that stored level.
C21_LatestLevelWins ==
    /\ ret.op = "detect_frustration" => StoredLevel = ret.value
    /\ ret.op = "should_escalate" /\ ~Get(state[ret.conv], "escalation_requested", FALSE)
          => ret.value = (StoredLevel = "angry")
    /\ ret.op = "create_ticket" => db[ret.value.ticket_id].frustration_level = StoredLevel
    /\ ret.op = "get_escalation_context" => ret.value.frustration_level = StoredLevel

\* a calm message has reset the level a ticket recorded as angry
C21_Witness ==
    /\ ret.op = "detect_frustration"
    /\ ret.value = "normal"
    /\ \E id \in DOMAIN db \ DOMAIN TICKET_DATABASE : db[id].frustration_level = "angry"

\* vars with the operation of `ret` leading: two returns of different
\* operations differ by that name, whatever their arguments and values are
steps == <<ret.op, vars>>

\* Routing: conversations start and ask which team handles a category at a
\* priority, for every value in the tables and values in none.
RouteNext ==
    \/ \E c \in Conv, u \in UserIds : GetInitialState(c, u)
    \/ \E c \in Conv, category \in RouteCategories, priority \in RoutePriorities :
          AssignToTeam(c, category, priority)

RouteSpec == Init /\ [][RouteNext]_vars

\* C22: assign_to_team answers every category and priority with status
\* "success", the category's team or general_support, the priority's SLA of
\* 1, 4, 8 or 24 hours or 24 when unmatched, the team's escalation path or
\* support_manager, and an urgency note exactly for critical and high;
\* (billing, critical) gives finance_team, 1 hour, finance_director and the
\* note; the call leaves the sessions and the ticket database as they were.
C22_AssignToTeamTotal ==
    [][ ret'.op = "assign_to_team" =>
          LET category == ret'.arg.category
              priority == ret'.arg.priority
              result == ret'.value
              hours == CASE priority = "critical" -> 1
                         [] priority = "high" -> 4
                         [] priority = "medium" -> 8
                         [] OTHER -> 24
          IN  /\ result.status = "success"
              /\ result.team = IF category \in DOMAIN TEAM_ASSIGNMENTS
                               THEN TEAM_ASSIGNMENTS[category]
                               ELSE "general_support"
              /\ result.response_sla = ToString(hours) \o " hours"
              /\ result.escalation_path = IF result.team \in DOMAIN ESCALATION_PATHS
                                          THEN ESCALATION_PATHS[result.team]
                                          ELSE "support_manager"
              /\ ("urgency_note" \in DOMAIN result) = (priority \in {"critical", "high"})
              /\ category = "billing" /\ priority = "critical"
                    => /\ result.team = "finance_team"
                       /\ result.response_sla = "1 hours"
                       /\ result.escalation_path = "finance_director"
              /\ state' = state
              /\ heap' = heap
              /\ db' = db ]_steps

\* a category and a priority that are in no table were routed
C22_Witness ==
    /\ ret.op = "assign_to_team"
    /\ ret.arg.category \notin DOMAIN TEAM_ASSIGNMENTS
    /\ ret.arg.priority \notin DOMAIN RESPONSE_SLAS
    /\ ret.value.team = "general_support"
    /\ ret.value.response_sla = "24 hours"

\* Hand-off of one conversation: every field get_escalation_context reads
\* and fields it does not read are written by their helpers in any order,
\* in a session built by get_initial_state or one that starts empty, and
\* the payload is asked for in between.
HandoffNext ==
    \/ GetInitialState(Observed, "user_123")
    \/ NewSession(Observed)
    \/ \E a \in IssueArgs : SetIssueContext(Observed, a)
    \/ \E s \in {"restart the service", "rotate the key"} :
          AddAttemptedSolution(Observed, s, "specialist", "pending", None)
    \/ UpdateSolutionResult(Observed, "not_helpful", None)
    \/ IncrementTurnCount(Observed)
    \/ DetectFrustration(Observed, AngryMessage)
    \/ GetUserContext(Observed, "user_456")
    \/ SetConversationStatus(Observed, "in_progress")
    \/ GetEscalationContext(Observed)

HandoffSpec == Init /\ [][HandoffNext]_vars

\* the session has no classified issue: the key is missing or bound to None
Unclassified(s) == "issue" \notin DOMAIN s \/ IsNone(s["issue"])

\* C23: get_escalation_context returns issue_summary "No summary available",
\* category "unknown" and priority "medium" when no issue is classified and
\* the issue's description_summary, category and priority otherwise; its
\* attempted_solutions has one {solution, result, agent} entry per recorded
\* attempt, in the order of the record.
C23_EscalationPayload ==
    ret.op = "get_escalation_context" =>
        LET s == state[ret.conv]
            payload == ret.value
            recorded == get_attempted_solutions(s)
        IN  /\ IF Unclassified(s)
               THEN /\ payload.issue_summary = "No summary available"
                    /\ payload.category = "unknown"
                    /\ payload.priority = "medium"
               ELSE /\ payload.issue_summary = s["issue"].description_summary
                    /\ payload.category = s["issue"].category
                    /\ payload.priority = s["issue"].priority
            /\ Len(payload.attempted_solutions) = Len(recorded)
            /\ \A i \in 1 .. Len(recorded) :
                  /\ DOMAIN payload.attempted_solutions[i] = {"solution", "result", "agent"}
                  /\ payload.attempted_solutions[i].solution = recorded[i].solution
                  /\ payload.attempted_solutions[i].result = recorded[i].result
                  /\ payload.attempted_solutions[i].agent = recorded[i].agent

\* the payload of a classified issue lists two different attempts
C23_Witness ==
    /\ ret.op = "get_escalation_context"
    /\ ~Unclassified(state[ret.conv])
    /\ Len(ret.value.attempted_solutions) = 2
    /\ ret.value.attempted_solutions[1] # ret.value.attempted_solutions[2]

\* the fields get_escalation_context projects out of the session
ProjectedFields ==
    { "issue", "attempted_solutions", "turn_count", "user_id", "user_name",
      "user_plan", "user_frustration_level" }

Projection(s) == [k \in DOMAIN s \cap ProjectedFields |-> s[k]]

\* C24: the payload get_escalation_context returns is the payload of the
\* session cut down to issue, attempted_solutions, turn_count, user_id,
\* user_name, user_plan and user_frustration_level, so it is the same
\* whatever the other fields hold; the call changes no state.
C24_PayloadOfProjection ==
    [][ ret'.op = "get_escalation_context" =>
          /\ ret'.value = get_escalation_context(Projection(state[ret'.conv]))
          /\ state' = state
          /\ heap' = heap
          /\ db' = db ]_steps

\* the payload was taken from a session whose other fields have moved
C24_Witness ==
    /\ ret.op = "get_escalation_context"
    /\ Get(state[ret.conv], "status", "new") = "in_progress"
    /\ Get(state[ret.conv], "solution_attempts_count", 0) > 0
    /\ Get(state[ret.conv], "user_context_loaded", FALSE)
    /\ ret.value.turn_count > 0

\* Lookups of one conversation: users, tickets and orders are looked up by
\* ids that exist and ids that do not, while the clock advances and turns
\* are counted.
LookupNext ==
    \/ \E u \in UserIds : GetInitialState(Observed, u)
    \/ NewSession(Observed)
    \/ Tick
    \/ IncrementTurnCount(Observed)
    \/ \E u \in LookupArgs : GetUserContext(Observed, u)
    \/ \E t \in TicketIdArgs : GetTicketStatus(Observed, t)
    \/ \E o \in OrderIdArgs : GetOrderStatus(o)

LookupSpec == Init /\ [][LookupNext]_vars

\* `ret` is the success payload of get_user_context
UserFound(r) == r.op = "get_user_context" /\ r.value.status = "success"

\* C25: a second get_user_context for the same known id returns the user and
\* support_context of the first and leaves the session as the first call
\* left it except for last_activity; no get_user_context changes turn_count.
C25_UserContextIdempotent ==
    [][ /\ UserFound(ret') =>
              Get(state'[ret'.conv], "turn_count", 0) = Get(state[ret'.conv], "turn_count", 0)
        /\ UserFound(ret) /\ UserFound(ret') /\ ret'.conv = ret.conv
              /\ LookupId(ret'.arg) = LookupId(ret.arg) =>
              /\ ret'.value.user = ret.value.user
              /\ ret'.value.support_context = ret.value.support_context
              /\ DOMAIN state'[ret.conv] = DOMAIN state[ret.conv]
              /\ \A k \in DOMAIN state[ret.conv] \ {"last_activity"} :
                    state'[ret.conv][k] = state[ret.conv][k]
              /\ heap' = heap
              /\ db' = db ]_steps

\* a known user was looked up after the session had counted turns and its
\* clock had advanced
C25_Witness ==
    /\ UserFound(ret)
    /\ "started_at" \in DOMAIN state[ret.conv]
    /\ state[ret.conv]["last_activity"] > state[ret.conv]["started_at"]
    /\ state[ret.conv]["turn_count"] > 0
    /\ state[ret.conv]["user_name"] = ret.value.user.name

\* `ret` is the return of a lookup whose id is in none of the tables
UnknownId(r) ==
    \/ r.op = "get_user_context" /\ LookupId(r.arg) \notin DOMAIN MOCK_USERS
    \/ r.op = "get_ticket_status" /\ r.arg \notin DOMAIN db
    \/ r.op = "get_order_status" /\ r.arg \notin DOMAIN orders_db

\* C26: a lookup of an unknown user id, ticket id or order id returns a
\* result envelope whose status is "error" and that carries a message.
C26_UnknownIdIsErrorEnvelope ==
    UnknownId(ret) =>
        /\ "status" \in DOMAIN ret.value
        /\ ret.value["status"] = "error"
        /\ \E k \in {"error_message", "message"} : k \in DOMAIN ret.value

\* C27: a knowledge-base search or a ticket search that matches nothing
\* returns status "success", an empty list, the count 0 and a message field
\* that explains the empty result.
C27_EmptySearchExplained ==
    /\ KbSearched /\ Len(Articles) = 0 =>
          /\ ret.value.status = "success"
          /\ ret.value.total_found = 0
          /\ "message" \in DOMAIN ret.value
    /\ Searched /\ Len(Found) = 0 =>
          /\ ret.value.status = "success"
          /\ ret.value.total_found = 0
          /\ "message" \in DOMAIN ret.value

\* Ticket numbers: one conversation creates ticket after ticket, each call
\* advancing through its draw, its `while` loop, the store and the return.
NumberNext ==
    \/ GetInitialState(Observed, "user_123")
    \/ \E a \in CreateTicketArgs : CtCall(Observed, a)
    \/ CtReroll(Observed)
    \/ CtUnique(Observed)
    \/ CtStore(Observed)
    \/ CtRecord(Observed)

NumberSpec == Init /\ [][NumberNext]_vars

\* C28: create_ticket terminates whatever the ticket database holds and
\* however many tickets were created before: a call that is in its re-roll
\* loop can still draw an id that is not in the database.
C28_CreateTicketTerminates ==
    \A c \in Conv : call[c].pc = "check" => UniqueIds(db) # {}

\* Snapshot: one conversation, started by get_initial_state or empty,
\* records attempts, counts turns and rates a message before and after it
\* creates a ticket.
SnapshotNext ==
    \/ GetInitialState(Observed, "user_123")
    \/ NewSession(Observed)
    \/ \E s \in {"restart the service", "rotate the key"} :
          AddAttemptedSolution(Observed, s, "specialist", "pending", None)
    \/ IncrementTurnCount(Observed)
    \/ DetectFrustration(Observed, AngryMessage)
    \/ \E a \in CreateTicketArgs : returned = << >> /\ CreateTicket(Observed, a)

SnapshotSpec == Init /\ [][SnapshotNext]_vars

\* the solution texts of the attempts a session has recorded, in order
RecordedTexts(s) ==
    IF "attempted_solutions" \in DOMAIN s
    THEN [i \in 1 .. Len(heap[s["attempted_solutions"]]) |->
              heap[s["attempted_solutions"]][i].solution]
    ELSE << >>

\* C29: the ticket create_ticket stores has status "open", the session's
\* user_frustration_level and turn_count at the call ("normal" and 0 when
\* absent), the supplied attempted_solutions or else the session's solution
\* texts in order, and the supplied user_id or else the session's; no later
\* step changes a stored ticket.
C29_TicketIsSnapshot ==
    [][ /\ ret'.op = "create_ticket" /\ ret'.value.ticket_id \notin DOMAIN db =>
              LET ticket == db'[ret'.value.ticket_id]
                  s == state[ret'.conv]
                  args == ret'.arg
              IN  /\ ticket.status = "open"
                  /\ ticket.frustration_level =
                        IF "user_frustration_level" \in DOMAIN s
                        THEN s["user_frustration_level"] ELSE "normal"
                  /\ ticket.turn_count =
                        IF "turn_count" \in DOMAIN s THEN s["turn_count"] ELSE 0
                  /\ ticket.attempted_solutions =
                        IF args.attempted_solutions # << >>
                        THEN args.attempted_solutions ELSE RecordedTexts(s)
                  /\ ticket.user_id =
                        IF args.user_id # None THEN args.user_id
                        ELSE IF "user_id" \in DOMAIN s THEN s["user_id"] ELSE None
        /\ \A id \in DOMAIN db : id \in DOMAIN db' /\ db'[id] = db[id] ]_steps

\* the session has moved on from what its ticket recorded
C29_Witness ==
    \E id \in DOMAIN db \ DOMAIN TICKET_DATABASE :
        /\ db[id].status = "open"
        /\ db[id].turn_count < Get(state[Observed], "turn_count", 0)
        /\ db[id].frustration_level # Get(state[Observed], "user_frustration_level", "normal")
        /\ Len(db[id].attempted_solutions) < Len(get_attempted_solutions(state[Observed]))

\* the attempted_solutions list of conversation c before and after a step
SolutionsBefore(c) == heap[state[c]["attempted_solutions"]]
SolutionsAfter(c) == heap'[state'[c]["attempted_solutions"]]

\* C30: a session's attempted_solutions only grows by one appended entry or
\* has the result and user_feedback of its last entry amended: the length
\* never decreases, an append changes no existing entry, an amendment keeps
\* the length and every other field of the last entry, and every entry before
\* the last keeps all its fields.
C30_SolutionsAppendOnly ==
    [][ \A c \in DOMAIN state :
          LET old == SolutionsBefore(c)
              new == SolutionsAfter(c)
          IN  /\ c \in DOMAIN state'
              /\ Len(new) \in {Len(old), Len(old) + 1}
              /\ \A i \in 1 .. Len(old) - 1 : new[i] = old[i]
              /\ Len(new) = Len(old) + 1 /\ Len(old) > 0 => new[Len(old)] = old[Len(old)]
              /\ Len(new) = Len(old) /\ Len(old) > 0 =>
                    /\ new[Len(old)].solution = old[Len(old)].solution
                    /\ new[Len(old)].agent = old[Len(old)].agent
                    /\ new[Len(old)].timestamp = old[Len(old)].timestamp ]_vars

\* a second attempt was appended and then amended with the user's feedback
C30_Witness ==
    \E c \in DOMAIN state :
        /\ Len(get_attempted_solutions(state[c])) = 2
        /\ get_attempted_solutions(state[c])[2].user_feedback = "did not work"
        /\ get_attempted_solutions(state[c])[2].result = "not_helpful"
        /\ get_attempted_solutions(state[c])[1].user_feedback = None

----------------------------------------------------------------------------
(* Claims C31..C39 *)

\* Store: one session, built by get_initial_state or empty, is updated with
\* whole dicts and read key by key while the clock advances.
StoreNext ==
    \/ GetInitialState(Observed, "user_123")
    \/ NewSession(Observed)
    \/ Tick
    \/ \E u \in UpdateArgs : UpdateState(Observed, u)
    \/ GetStateValue(Observed, "status", "unknown")
    \/ GetStateValue(Observed, "note", None)
    \/ GetStateValue(Observed, "escalation_count", 7)
    \/ GetConversationStatus(Observed)
    \/ GetTurnCount(Observed)

StoreSpec == Init /\ [][StoreNext]_vars

\* C31: update_state sets every key of updates to its given value, leaves
\* every other key but last_activity unchanged and stamps last_activity with
\* the time of the call, whatever last_activity the updates carry;
\* get_state_value returns the stored value or, for a missing key, the
\* supplied default, status reading as "new" and turn_count as 0 on an
\* empty session; the reads change nothing.
C31_UpdateAndRead ==
    [][ /\ ret'.op = "update_state" /\ now' = now =>
              LET s == state[ret'.conv]
                  t == state'[ret'.conv]
                  updates == ret'.arg
              IN  /\ DOMAIN t = DOMAIN s \cup DOMAIN updates \cup {"last_activity"}
                  /\ \A k \in DOMAIN updates \ {"last_activity"} : t[k] = updates[k]
                  /\ \A k \in DOMAIN s \ (DOMAIN updates \cup {"last_activity"}) : t[k] = s[k]
                  /\ t["last_activity"] = now'
                  /\ heap' = heap
        /\ ret'.op = "get_state_value" =>
              /\ ret'.value = IF ret'.arg.key \in DOMAIN state[ret'.conv]
                              THEN state[ret'.conv][ret'.arg.key]
                              ELSE ret'.arg.default
              /\ state' = state
        /\ ret'.op = "get_conversation_status" =>
              /\ state[ret'.conv] = EmptyState => ret'.value = "new"
              /\ "status" \in DOMAIN state[ret'.conv] => ret'.value = state[ret'.conv]["status"]
              /\ state' = state
        /\ ret'.op = "get_turn_count" =>
              /\ state[ret'.conv] = EmptyState => ret'.value = 0
              /\ "turn_count" \in DOMAIN state[ret'.conv]
                    => ret'.value = state[ret'.conv]["turn_count"]
              /\ state' = state ]_steps

\* the stamp has replaced the last_activity the caller passed
C31_Witness ==
    /\ ret.op = "update_state"
    /\ "last_activity" \in DOMAIN ret.arg
    /\ now > 0
    /\ state[ret.conv]["last_activity"] = now
    /\ state[ret.conv]["current_agent"] = "triage"

\* Schema: session states of every status, turn count, number of attempts
\* and with or without a classified issue are converted to dicts, read
\* back from whole, cut down and extended dicts, and round-tripped.
SchemaNext ==
    \/ \E st \in Statuses, n \in 0 .. MaxTurns, k \in 0 .. MaxSolutions, cl \in BOOLEAN :
          ToDict(SampleState(st, n, k, cl))
    \/ \E st \in Statuses, n \in 0 .. MaxTurns, k \in 0 .. MaxSolutions, cl \in BOOLEAN :
          RoundTrip(SampleState(st, n, k, cl))
    \/ \E st \in Statuses, k \in 0 .. MaxSolutions, cl \in BOOLEAN,
          kept \in {{}, {"status", "issue", "attempted_solutions"}, SessionStateFields},
          extra \in {{}, {"schema_version", "tenant"}} :
          FromDict(Stored(SampleState(st, 1, k, cl), kept, extra))

SchemaSpec == Init /\ [][SchemaNext]_vars

PhaseFlags == {"triage_complete", "specialist_engaged"}

FlagNext ==
    \/ GetInitialState(Observed, "user_123")
    \/ NewSession(Observed)
    \/ MarkTriageComplete(Observed)
    \/ MarkSpecialistEngaged(Observed)
    \/ MarkSystemStatusChecked(Observed)
    \/ SetCurrentAgent(Observed, "specialist")
    \/ SetConversationStatus(Observed, "in_progress")
    \/ IncrementTurnCount(Observed)
    \/ DetectFrustration(Observed, AngryMessage)
    \/ GetUserContext(Observed, "user_456")
    \/ \E u \in {x \in UpdateArgs : DOMAIN x \cap PhaseFlags = {}} :
          UpdateState(Observed, u)

FlagSpec == Init /\ [][FlagNext]_vars

\* flag `flag` of conversation c is set
Flagged(st, c, flag) == c \in DOMAIN st /\ Get(st[c], flag, FALSE)

SessionUser(s) == Get(s, "user_id", "")

\* C34: get_user_context called without a user_id answers for the user the
\* session was started for, and for the default demo user only when the
\* session has none.
C34_LookupUsesSessionUser ==
    [][ ret'.op = "get_user_context" /\ now' = now /\ ret'.arg = None =>
          LET c == ret'.conv
              expected == IF Truthy(SessionUser(state[c]))
                          THEN SessionUser(state[c]) ELSE DEFAULT_USER_ID
          IN  IF expected \in DOMAIN MOCK_USERS
              THEN /\ ret'.value.status = "success"
                   /\ ret'.value.user.name = MOCK_USERS[expected].name
              ELSE ret'.value.status = "error" ]_steps

\* Escalation of one conversation: tickets are created and escalations
\* requested, after which the mood is rated again, attempts are recorded and
\* amended and the status is set, and the decision is read for every
\* threshold in between.
StickyNext ==
    \/ GetInitialState(Observed, "user_123")
    \/ NewSession(Observed)
    \/ \E a \in PlainTicketArgs : returned = << >> /\ CreateTicket(Observed, a)
    \/ SetEscalationRequested(Observed, None)
    \/ \E m \in {CalmMessage, AngryMessage} : DetectFrustration(Observed, m)
    \/ AddAttemptedSolution(Observed, "restart the router", "specialist", "not_helpful", None)
    \/ UpdateSolutionResult(Observed, "helpful", None)
    \/ SetConversationStatus(Observed, "in_progress")
    \/ \E m \in {2, 3} : ShouldEscalate(Observed, m)

StickySpec == Init /\ [][StickyNext]_vars

\* create_ticket or set_escalation_requested has run in conversation c: each
\* run counts one escalation and the count is written by nothing else
HasEscalated(c) ==
    c \in DOMAIN state /\ (c \in Ticketed \/ Get(state[c], "escalation_count", 0) > 0)

ResolvedOf(category) ==
    {id \in DOMAIN db : db[id].status = "resolved" /\ db[id].category = category}

\* C36: a search with a category returns every resolved ticket of that
\* category, each with a score of 2 or more, up to limit of them, whatever
\* the description is, the empty one included; no other ticket is returned.
C36_CategoryMatchAlwaysScores ==
    Searched /\ Truthy(ret.arg.category) =>
        LET wanted == ResolvedOf(ret.arg.category)
        IN  /\ \A id \in wanted :
                  ExpectedTicketScore(db[id], ret.arg.description, ret.arg.category) >= 2
            /\ \A i \in 1 .. Len(Found) :
                  /\ Found[i].ticket_id \in wanted
                  /\ Found[i].relevance_score >= 2
            /\ Len(Found) = IF ret.arg.limit < Cardinality(wanted)
                            THEN ret.arg.limit ELSE Cardinality(wanted)
            /\ \A i, j \in 1 .. Len(Found) :
                  i # j => Found[i].ticket_id # Found[j].ticket_id

\* an empty description with a category brought back both resolved tickets
\* of the category, each on the category's 2 points alone, while an open
\* ticket of the category stayed out
C36_Witness ==
    /\ Searched
    /\ ret.arg = [description |-> "", category |-> "integration", limit |-> 3]
    /\ FoundIds = <<"TICKET-789", "TICKET-456">>
    /\ \A i \in 1 .. Len(Found) : Found[i].relevance_score = 2
    /\ \E id \in DOMAIN db : db[id].category = "integration" /\ db[id].status = "open"

\* Ticket references of one conversation: tickets are created, escalations
\* are recorded with and without a ticket id, and tickets are looked up.
ReferenceNext ==
    \/ GetInitialState(Observed, "user_123")
    \/ NewSession(Observed)
    \/ \E a \in CreateTicketArgs : CreateTicket(Observed, a)
    \/ \E t \in {None, "TICKET-789", "TICKET-000"} : SetEscalationRequested(Observed, t)
    \/ \E t \in TicketIdArgs : GetTicketStatus(Observed, t)

ReferenceSpec == Init /\ [][ReferenceNext]_vars

TallyNext ==
    \/ \E c \in Conv : GetInitialState(c, "user_123")
    \/ \E c \in Conv, a \in PlainTicketArgs : CreateTicket(c, a)
    \/ \E c \in Conv : SetConversationStatus(c, "in_progress")
    \/ \E c \in Conv : DetectFrustration(c, AngryMessage)
    \/ \E c \in Conv : GetTicketStatus(c, "TICKET-" \o ToString(RandLo))

TallySpec == Init /\ [][TallyNext]_vars

\* the stored tickets that conversation c's create_ticket calls created
TicketsOf(database, log, c) ==
    {id \in DOMAIN database :
        \E i \in 1 .. Len(log) : log[i].conv = c /\ log[i].ticket_id = id}

EscalationCount(st, c) == IF c \in DOMAIN st THEN Get(st[c], "escalation_count", 0) ELSE 0

\* C38: a conversation's escalation_count is the number of stored tickets
\* its create_ticket calls created; a call raises the count of its
\* conversation by exactly 1 and no step lowers a count.
C38_CountMatchesTickets ==
    [][ \A c \in Conv :
          /\ EscalationCount(state', c) = Cardinality(TicketsOf(db', returned', c))
          /\ EscalationCount(state', c) >= EscalationCount(state, c)
          /\ EscalationCount(state', c) =
                EscalationCount(state, c)
                + (IF Len(returned') > Len(returned)
                      /\ returned'[Len(returned')].conv = c THEN 1 ELSE 0) ]_steps

\* one conversation holds two tickets and counts two escalations, the other
\* holds and counts none, and a status was set after the last ticket
C38_Witness ==
    \E c, d \in Conv :
        /\ EscalationCount(state, c) = 2
        /\ Cardinality(TicketsOf(db, returned, c)) = 2
        /\ d \in DOMAIN state
        /\ EscalationCount(state, d) = 0
        /\ Get(state[c], "status", None) = "in_progress"

\* Gathering: one session whose turns run the knowledge-base lookup and the
\* ticket-history lookup at once, statement group by statement group, while
\* the clock advances and turns are counted.
GatherNext ==
    \/ GetInitialState(Observed, "user_123")
    \/ NewSession(Observed)
    \/ Tick
    \/ IncrementTurnCount(Observed)
    \/ \E q \in GatherQueries, d \in GatherDescriptions : Gather(Observed, q, d)
    \/ KbRecordQuery(Observed)
    \/ KbStamp(Observed)
    \/ KbReturn(Observed)
    \/ TsScore(Observed)
    \/ TsRecord(Observed)
    \/ EndGather(Observed)

GatherSpec == Init /\ [][GatherNext]_vars

\* the keys the lookups write
Breadcrumbs == {"last_kb_search", "last_similar_tickets", "last_activity"}

\* sessions s and t agree on key k: both lack it or both hold the same value
SameAt(s, t, k) ==
    /\ (k \in DOMAIN s) = (k \in DOMAIN t)
    /\ k \in DOMAIN s => s[k] = t[k]

\* session s holds value v under key k
Holds(s, k, v) == k \in DOMAIN s /\ s[k] = v

\* the ids of a search_similar_tickets result
IdsOf(result) ==
    [i \in 1 .. Len(result.similar_tickets) |-> result.similar_tickets[i].ticket_id]

\* C39: in every interleaving of search_knowledge_base(q) and
\* search_similar_tickets(d) on one session, a step of either lookup leaves
\* the ticket database, the lists and every key other than last_kb_search,
\* last_similar_tickets and last_activity as they were; the knowledge-base
\* lookup leaves last_similar_tickets alone and the ticket lookup leaves
\* last_kb_search alone, writing last_similar_tickets only when it found
\* tickets; once both have returned, last_kb_search is q, found or not, and
\* last_similar_tickets is the ticket lookup's ids when it found any.
C39_LookupsWriteDisjointKeys ==
    [][ \A c \in DOMAIN state :
          Gathering(c) /\ call'[c] # call[c] =>
            /\ db' = db
            /\ heap' = heap
            /\ returned' = returned
            /\ DOMAIN state' = DOMAIN state
            /\ DOMAIN state'[c] \subseteq DOMAIN state[c] \cup Breadcrumbs
            /\ \A k \in DOMAIN state[c] \ Breadcrumbs : state'[c][k] = state[c][k]
            /\ call'[c].pc = "gathering" =>
                  /\ call'[c].kb # call[c].kb =>
                        SameAt(state'[c], state[c], "last_similar_tickets")
                  /\ call'[c].tickets # call[c].tickets =>
                        /\ SameAt(state'[c], state[c], "last_kb_search")
                        /\ SameAt(state'[c], state[c], "last_activity")
                  /\ call'[c].tickets.pc = "done" /\ call[c].tickets.pc # "done" =>
                        IF call[c].tickets.result.similar_tickets = << >>
                        THEN SameAt(state'[c], state[c], "last_similar_tickets")
                        ELSE Holds(state'[c], "last_similar_tickets",
                                   IdsOf(search_similar_tickets(db, TicketOrder,
                                             call[c].tickets.description, None, 3)))
                  /\ call'[c].kb.pc = "done" /\ call'[c].tickets.pc = "done" =>
                        /\ Get(state'[c], "last_kb_search", None) = call'[c].kb.query
                        /\ call'[c].tickets.result.similar_tickets # << >> =>
                              Holds(state'[c], "last_similar_tickets",
                                    IdsOf(call'[c].tickets.result)) ]_steps

\* both lookups of a turn have returned, the ticket lookup first: the query
\* matched no article and is recorded, and the ticket found is recorded
C39_Witness ==
    /\ Gathered(Observed)
    /\ call[Observed].kb.query = "zzz"
    /\ ret.op = "search_knowledge_base"
    /\ ret.value.articles = << >>
    /\ Holds(state[Observed], "last_kb_search", "zzz")
    /\ Holds(state[Observed], "last_similar_tickets", <<"TICKET-456">>)
    /\ Get(state[Observed], "turn_count", 0) > 0

====
